---- MODULE Spec2Model ----
(***************************************************************************)
(* A model of the tywrap Python subprocess bridge                          *)
(* (src/runtime/python_bridge.py) and of the JSON codec it encodes its     *)
(* responses with (src/runtime/safe_codec.py).                             *)
(*                                                                         *)
(* The bridge reads one request per line on stdin, dispatches it, and      *)
(* writes one response per line on stdout.  The model follows main() step  *)
(* by step: read a line, run the try block (size check, json.loads,        *)
(* dispatch, error packaging), encode the response, write it, and on any   *)
(* exception of the encode/write step write the fallback error.            *)
(*                                                                         *)
(* The environment is: the lines arriving on stdin, the behaviour of the   *)
(* user code a request calls (what it returns or raises), and the outcome  *)
(* of a write to stdout.                                                   *)
(***************************************************************************)
EXTENDS Integers, Sequences, FiniteSets, TLC

(***************************************************************************)
(* Bounds of the model.                                                    *)
(***************************************************************************)
\* Number of lines read from stdin in one run.
MaxLines == 2

\* Longest byte string the model encodes.
MaxBytes == 3

\* Deepest nesting of lists and objects around a value.
MaxDepth == 2

\* Longest value of an environment variable the model parses.
MaxRaw == 3

\* Number of lines read in a run of argument traffic.
MaxArgumentLines == 1

\* Number of lines read in a run of handle traffic: instantiate, call_method,
\* dispose_instance and meta requests only, no size ceiling configured, every
\* write to stdout succeeding so far.
MaxHandleLines == 4

(***************************************************************************)
(* Program constants.                                                      *)
(***************************************************************************)
PROTOCOL == "tywrap/1"

PROTOCOL_VERSION == 1

\* get_codec_max_bytes / get_request_max_bytes return None or an integer > 0;
\* 0 stands for None.
NoLimit == 0

(***************************************************************************)
(* Python values, as far as the codec tells them apart.  A value is a      *)
(* scalar (leaf), a list of values, or a list that contains itself.        *)
(***************************************************************************)
Leaf(x) == [t |-> "leaf", leaf |-> x, items |-> <<>>]

List(xs) == [t |-> "list", leaf |-> "-", items |-> xs]

Cyclic == [t |-> "cyclic", leaf |-> "-", items |-> <<>>]

\* A string with the given text.
Str(text) == [t |-> "str", leaf |-> text, items |-> <<>>]

\* The dict handle_meta returns, as far as it depends on the state: the
\* protocol literal, the protocol version and len(instances).
MetaDict(protocol, version, n) == [t |-> "meta", leaf |-> protocol, items |-> <<version, n>>]

\* "int", "str", "true", "false": plain JSON scalars.  "huge": a long string.
\* "nan", "inf", "ninf": Python floats.  "np32nan": numpy.float32('nan'),
\* which is not a float subclass and so reaches the default encoder.
\* "complex": a value no encoder handles.  "bytes": a byte string.
Leaves == {"int", "str", "true", "false", "huge", "nan", "inf", "ninf", "np32nan", "complex", "bytes"}

NoValue == Leaf("-")

(***************************************************************************)
(* Outcome of a Python call: a returned value or a raised exception.       *)
(***************************************************************************)
\* An exception message: its text, and the two byte counts the size errors
\* format into it (0 elsewhere).
Msg(text) == [text |-> text, n |-> 0, max |-> 0]

SizedMsg(text, n, max) == [text |-> text, n |-> n, max |-> max]

NoExc == [type |-> "-", message |-> Msg("-")]

Ok(v) == [ok |-> TRUE, v |-> v, exc |-> NoExc]

Raise(type, text) == [ok |-> FALSE, v |-> NoValue, exc |-> [type |-> type, message |-> Msg(text)]]

RaiseExc(exc) == [ok |-> FALSE, v |-> NoValue, exc |-> exc]

(***************************************************************************)
(* Request values and the bytes envelope                                   *)
(*                                                                         *)
(* The members of a request as json.loads returns them: scalars (Leaf),    *)
(* strings with their characters (Text), lists (List) and objects (Dict);  *)
(* deserialize adds byte strings (Bytes).  A character is its index in     *)
(* the base64 alphabet A-Z a-z 0-9 + / (0..63), the padding character, or  *)
(* a character outside the alphabet.                                      *)
(***************************************************************************)
\* '=' and '!', after the 64 characters of the alphabet.
Pad == 64

NonAlphabet == 65

\* The bytes 0x00, 'H' and 0xff.
ByteValues == {0, 72, 255}

Text(chars) == [t |-> "text", chars |-> chars]

\* An object: its keys in order, and the value of each.
Dict(keys, vals) == [t |-> "dict", keys |-> keys, vals |-> vals]

Bytes(data) == [t |-> "bytes", data |-> data]

\* Python's None: a member that is null, or that dict.get does not find.
PyNone == Leaf("None")

\* A member that is not in the object.
Absent == [t |-> "absent"]

\* The strings 'bytes' and 'base64'.
TextBytes == Text(<<27, 50, 45, 30, 44>>)

TextBase64 == Text(<<27, 26, 44, 30, 58, 56>>)

RECURSIVE SeqsUpTo(_, _)
\* The sequences over S of length n at most.
SeqsUpTo(S, n) ==
    IF n = 0 THEN {<<>>}
    ELSE LET shorter == SeqsUpTo(S, n - 1)
         IN  shorter \cup {Append(q, x) : q \in shorter, x \in S}

ByteStrings == SeqsUpTo(ByteValues, MaxBytes)

RECURSIVE b64encode_unpadded(_)
\* A plausible slip: the padding is left out.
b64encode_unpadded(data) ==
    CASE data = <<>> -> <<>>
      [] Len(data) = 1 -> <<data[1] \div 4, (data[1] % 4) * 16>>
      [] Len(data) = 2 ->
           <<data[1] \div 4, (data[1] % 4) * 16 + data[2] \div 16, (data[2] % 16) * 4>>
      [] OTHER ->
           <<data[1] \div 4, (data[1] % 4) * 16 + data[2] \div 16,
             (data[2] % 16) * 4 + data[3] \div 64, data[3] % 64>>
           \o b64encode_unpadded(SubSeq(data, 4, Len(data)))

RECURSIVE b64encode(_)
\* base64.b64encode(obj).decode('ascii'): three bytes give four characters,
\* the last group is padded with '='.
b64encode(data) ==
    CASE data = <<>> -> <<>>
      [] Len(data) = 1 -> <<data[1] \div 4, (data[1] % 4) * 16, Pad, Pad>>
      [] Len(data) = 2 ->
           <<data[1] \div 4, (data[1] % 4) * 16 + data[2] \div 16, (data[2] % 16) * 4, Pad>>
      [] OTHER ->
           <<data[1] \div 4, (data[1] % 4) * 16 + data[2] \div 16,
             (data[2] % 16) * 4 + data[3] \div 64, data[3] % 64>>
           \o b64encode(SubSeq(data, 4, Len(data)))

RECURSIVE a2b_base64(_, _, _, _, _, _)
\* binascii.a2b_base64(s, strict_mode=True), character by character:
\* quad_pos is the place in the group of four, pads the padding characters
\* seen in a row, leftchar the bits not yet part of a byte.
a2b_base64(chars, quad_pos, pads, padding_started, leftchar, data) ==
    IF chars = <<>>
    THEN IF quad_pos = 0 THEN Ok(Bytes(data))
         ELSE IF quad_pos = 1 THEN Raise("binascii.Error", "Invalid base64-encoded string")
         ELSE Raise("binascii.Error", "Incorrect padding")
    ELSE LET c == Head(chars)
             rest == Tail(chars)
         IN  IF c = Pad
             THEN IF quad_pos >= 2 /\ quad_pos + pads + 1 >= 4
                  THEN IF rest # <<>>
                       THEN Raise("binascii.Error", "Excess data after padding")
                       ELSE Ok(Bytes(data))
                  ELSE a2b_base64(rest, quad_pos, IF quad_pos >= 2 THEN pads + 1 ELSE pads,
                                  TRUE, leftchar, data)
             ELSE IF c > 63 THEN Raise("binascii.Error", "Only base64 data is allowed")
             ELSE IF padding_started
                  THEN Raise("binascii.Error", "Discontinuous padding not allowed")
             ELSE CASE quad_pos = 0 -> a2b_base64(rest, 1, 0, FALSE, c, data)
                    [] quad_pos = 1 ->
                         a2b_base64(rest, 2, 0, FALSE, c % 16,
                                    Append(data, leftchar * 4 + c \div 16))
                    [] quad_pos = 2 ->
                         a2b_base64(rest, 3, 0, FALSE, c % 4,
                                    Append(data, leftchar * 16 + c \div 4))
                    [] OTHER ->
                         a2b_base64(rest, 0, 0, FALSE, 0, Append(data, leftchar * 64 + c))

\* base64.b64decode(s, validate=True)
b64decode(chars) ==
    IF chars # <<>> /\ Head(chars) = Pad
    THEN Raise("binascii.Error", "Leading padding not allowed")
    ELSE a2b_base64(chars, 0, 0, FALSE, 0, <<>>)

\* value.get(key)
dict_get(value, key) ==
    IF \E i \in DOMAIN value.keys : value.keys[i] = key
    THEN value.vals[CHOOSE i \in DOMAIN value.keys : value.keys[i] = key]
    ELSE PyNone

\* isinstance(x, str): the strings of a request are Text values.
isinstance_str(x) == x.t = "text"

NO_DESERIALIZE == [t |-> "NO_DESERIALIZE"]

\* The bytes of a member holding base64, or ProtocolError.
decode_member(member, missing) ==
    IF ~isinstance_str(member) THEN Raise("ProtocolError", missing)
    ELSE LET r == b64decode(member.chars)
         IN  IF r.ok THEN r
             ELSE Raise("ProtocolError", "Invalid bytes envelope: invalid base64")

deserialize_bytes_envelope(value) ==
    IF value.t # "dict" THEN Ok(NO_DESERIALIZE)
    ELSE IF dict_get(value, "__tywrap_bytes__") = Leaf("true")
    THEN decode_member(dict_get(value, "b64"), "Invalid bytes envelope: missing b64")
    ELSE IF dict_get(value, "__type__") = TextBytes /\ dict_get(value, "encoding") = TextBase64
    THEN decode_member(dict_get(value, "data"), "Invalid bytes envelope: missing data")
    ELSE Ok(NO_DESERIALIZE)

RECURSIVE deserialize_lists_only(_)
\* A plausible slip: the values of an object are not decoded.
deserialize_lists_only(value) ==
    LET decoded == deserialize_bytes_envelope(value)
    IN  IF ~decoded.ok \/ decoded.v # NO_DESERIALIZE THEN decoded
        ELSE IF value.t # "list" \/ value.items = <<>> THEN Ok(value)
        ELSE LET h == deserialize_lists_only(Head(value.items))
                 r == deserialize_lists_only(List(Tail(value.items)))
             IN  IF ~h.ok THEN h ELSE IF ~r.ok THEN r
                 ELSE Ok(List(<<h.v>> \o r.v.items))

RECURSIVE deserialize(_)
RECURSIVE deserialize_each(_)
\* [deserialize(item) for item in items]: the first item that fails raises.
deserialize_each(items) ==
    IF items = <<>> THEN Ok(<<>>)
    ELSE LET h == deserialize(Head(items))
         IN  IF ~h.ok THEN h
             ELSE LET r == deserialize_each(Tail(items))
                  IN  IF ~r.ok THEN r ELSE Ok(<<h.v>> \o r.v)

deserialize(value) ==
    LET decoded == deserialize_bytes_envelope(value)
    IN  IF ~decoded.ok \/ decoded.v # NO_DESERIALIZE THEN decoded
        ELSE CASE value.t = "list" ->
                    LET r == deserialize_each(value.items)
                    IN  IF ~r.ok THEN r ELSE Ok(List(r.v))
               [] value.t = "dict" ->
                    LET r == deserialize_each(value.vals)
                    IN  IF ~r.ok THEN r ELSE Ok(Dict(value.keys, r.v))
               [] OTHER -> Ok(value)

\* The two bytes envelopes a request may hold, with the given base64 text.
TywrapEnvelope(chars) == Dict(<<"__tywrap_bytes__", "b64">>, <<Leaf("true"), Text(chars)>>)

TypedEnvelope(chars) ==
    Dict(<<"__type__", "encoding", "data">>, <<TextBytes, TextBase64, Text(chars)>>)

\* SafeCodec._default_encoder(obj) for bytes and bytearray.
encode_bytes(data) ==
    Dict(<<"__type__", "encoding", "data">>, <<TextBytes, TextBase64, Text(b64encode(data))>>)

\* The containers around a value, outermost first.
Contexts == SeqsUpTo({"list", "dict"}, MaxDepth)

RECURSIVE Wrap(_, _, _)
\* The value v inside the containers ctx names: a list is [sibling, ..., "Q"],
\* an object {"a": ..., "b": sibling}.
Wrap(v, sibling, ctx) ==
    IF ctx = <<>> THEN v
    ELSE IF Head(ctx) = "list"
         THEN List(<<sibling, Wrap(v, sibling, Tail(ctx)), Text(<<16>>)>>)
         ELSE Dict(<<"a", "b">>, <<Wrap(v, sibling, Tail(ctx)), sibling>>)

(***************************************************************************)
(* Values of the scientific libraries and their envelopes                  *)
(*                                                                         *)
(* An object is what the type checks of serialize make of it: the set of   *)
(* checks it passes (an instance of a subclass, or a class with a          *)
(* model_dump method, passes more than one), the number of its dimensions  *)
(* if it is an array, and whether it is a tensor that must be copied       *)
(* before it can be read (it is on another device or not contiguous).      *)
(***************************************************************************)
\* The checks of serialize, in the order in which it makes them.
SerializeOrder ==
    <<"ndarray", "dataframe", "series", "sparse", "tensor", "estimator", "model", "stdlib">>

Object(is, ndim, copy) == [t |-> "object", is |-> is, ndim |-> ndim, copy |-> copy]

\* A dict with the member __tywrap__: its kind, its encoding, and for a
\* tensor the envelope of its array.
Envelope(kind, encoding, value) ==
    [t |-> "envelope", kind |-> kind, encoding |-> encoding, value |-> value]

\* What model_dump(by_alias=True, mode='json') returns.
ModelDump == Dict(<<"field">>, <<Leaf("int")>>)

(***************************************************************************)
(* json.dumps(value, default=_default_encoder, allow_nan=...)              *)
(* The JSON text is a sequence of tokens.                                  *)
(***************************************************************************)
MsgRange == "Out of range float values are not JSON compliant"

MsgRangeNan == "Out of range float values are not JSON compliant: nan"

MsgRangeInf == "Out of range float values are not JSON compliant: inf"

MsgRangeNinf == "Out of range float values are not JSON compliant: -inf"

MsgCircular == "Circular reference detected"

MsgNotSerializable == "Object of type complex is not JSON serializable"

MsgNaN == "Cannot serialize NaN - NaN/Infinity not allowed in JSON"

MsgNoEncoder == "Object of type T is not JSON serializable"

MsgFailedNoEncoder == "JSON encoding failed: Object of type T is not JSON serializable"

MsgFailedRange == "JSON encoding failed: Out of range float values are not JSON compliant"

MsgFailedCircular == "JSON encoding failed: Circular reference detected"

MsgFailedType == "JSON encoding failed: Object of type complex is not JSON serializable"

\* The float tokens json.dumps emits with allow_nan=True.
NanTokens == {"NaN", "Infinity", "-Infinity"}

\* The message of the ValueError the json encoder raises for a non-finite
\* float with allow_nan=False.  The C encoder of CPython <= 3.11 gives the
\* bare sentence; the pure-Python encoder and later C encoders append
\* repr(value).  names_value tells which encoder is at work.
range_error(leaf, names_value) ==
    IF ~names_value THEN MsgRange
    ELSE CASE leaf = "nan" -> MsgRangeNan
           [] leaf = "inf" -> MsgRangeInf
           [] OTHER -> MsgRangeNinf

FloatToken(leaf) ==
    CASE leaf = "nan" -> "NaN"
      [] leaf = "inf" -> "Infinity"
      [] OTHER -> "-Infinity"

\* SafeCodec._default_encoder(obj): the replacement value, or an exception.
\* A numpy scalar is unwrapped with .item() and checked for NaN/Infinity.
default_encoder(leaf, allow_nan) ==
    CASE leaf = "np32nan" ->
           IF ~allow_nan THEN Raise("CodecError", MsgNaN) ELSE Ok(<<"NaN">>)
      [] leaf = "bytes" ->
           Ok(<<"{", "\"__type__\":\"bytes\"", "\"encoding\":\"base64\"", "\"data\":\"SGVsbG8=\"", "}">>)
      [] OTHER -> Raise("TypeError", MsgNotSerializable)

\* SafeCodec._default_encoder(obj) on an object of the scientific
\* libraries: an array of no dimension is a numpy scalar and gives its
\* item, a standard scalar extension its string, an object with a callable
\* model_dump its dump; nothing else has an encoder.
\* A plausible slip: only numpy scalars, not arrays of dimension 0, are
\* written as their item.
default_encoder_object_no_item(obj) ==
    IF "stdlib" \in obj.is THEN Ok(Leaf("str"))
    ELSE IF "model" \in obj.is THEN Ok(ModelDump)
    ELSE Raise("TypeError", MsgNoEncoder)

default_encoder_object(obj) ==
    IF "ndarray" \in obj.is /\ obj.ndim = 0 THEN Ok(Leaf("int"))
    ELSE IF "stdlib" \in obj.is THEN Ok(Leaf("str"))
    ELSE IF "model" \in obj.is THEN Ok(ModelDump)
    ELSE Raise("TypeError", MsgNoEncoder)

dumps_leaf(leaf, allow_nan, names_value) ==
    CASE leaf \in {"int", "str", "true", "false", "huge"} -> Ok(<<leaf>>)
      [] leaf \in {"nan", "inf", "ninf"} ->
           IF allow_nan THEN Ok(<<FloatToken(leaf)>>)
           ELSE Raise("ValueError", range_error(leaf, names_value))
      [] OTHER -> default_encoder(leaf, allow_nan)

RECURSIVE json_dumps(_, _, _)
RECURSIVE dumps_items(_, _, _)
RECURSIVE dumps_members(_, _, _, _)
\* The members of an object, in order: each key, then its value.
dumps_members(keys, vals, allow_nan, names_value) ==
    IF keys = <<>> THEN Ok(<<>>)
    ELSE LET h == json_dumps(Head(vals), allow_nan, names_value)
         IN  IF ~h.ok THEN h
             ELSE LET r == dumps_members(Tail(keys), Tail(vals), allow_nan, names_value)
                  IN  IF ~r.ok THEN r ELSE Ok(<<Head(keys)>> \o h.v \o r.v)

\* The items of a list, left to right; the first failing item raises.
dumps_items(items, allow_nan, names_value) ==
    IF items = <<>> THEN Ok(<<>>)
    ELSE LET h == json_dumps(Head(items), allow_nan, names_value)
         IN  IF ~h.ok THEN h
             ELSE LET r == dumps_items(Tail(items), allow_nan, names_value)
                  IN  IF ~r.ok THEN r ELSE Ok(h.v \o r.v)

json_dumps(value, allow_nan, names_value) ==
    CASE value.t = "leaf" -> dumps_leaf(value.leaf, allow_nan, names_value)
      [] value.t = "list" ->
           LET r == dumps_items(value.items, allow_nan, names_value)
           IN  IF ~r.ok THEN r ELSE Ok(<<"[">> \o r.v \o <<"]">>)
      [] value.t = "str" -> Ok(<<value.leaf>>)
      [] value.t = "text" -> Ok(<<"str">>)
      [] value.t = "dict" ->
           LET r == dumps_members(value.keys, value.vals, allow_nan, names_value)
           IN  IF ~r.ok THEN r ELSE Ok(<<"{">> \o r.v \o <<"}">>)
      [] value.t = "bytes" -> json_dumps(encode_bytes(value.data), allow_nan, names_value)
      [] value.t = "object" ->
           LET d == default_encoder_object(value)
           IN  IF ~d.ok THEN d ELSE json_dumps(d.v, allow_nan, names_value)
      [] value.t = "envelope" ->
           IF value.value = NoValue THEN Ok(<<"{", value.kind, value.encoding, "}">>)
           ELSE LET r == json_dumps(value.value, allow_nan, names_value)
                IN  IF ~r.ok THEN r
                    ELSE Ok(<<"{", value.kind, value.encoding>> \o r.v \o <<"}">>)
      [] value.t = "meta" ->
           Ok(<<"{", "\"protocol\":", value.leaf, "\"protocolVersion\":",
                ToString(value.items[1]), "\"instances\":", ToString(value.items[2]), "}">>)
      [] OTHER -> Raise("ValueError", MsgCircular)

(***************************************************************************)
(* SafeCodec.encode                                                        *)
(***************************************************************************)
\* 'nan' in msg or 'infinity' in msg or 'inf' in msg, on the lowercased
\* message of a ValueError raised by json.dumps.
mentions_nan_or_inf(text) == text \in {MsgRangeNan, MsgRangeInf, MsgRangeNinf}

\* f'JSON encoding failed: {exc}'
encoding_failed(text) ==
    CASE text = MsgCircular -> MsgFailedCircular
      [] text = MsgNotSerializable -> MsgFailedType
      [] text = MsgNoEncoder -> MsgFailedNoEncoder
      [] OTHER -> MsgFailedRange

\* str(id(obj)) of the objects the model constructs: the addresses the
\* allocator hands out.
Handles == {"140001", "140002"}

\* UTF-8 bytes of one token of a JSON text: a long number and the decimal
\* string of an address take more than the other tokens.
TokBytes(tok) == IF tok = "huge" \/ tok \in Handles THEN 4 ELSE 1

RECURSIVE SumBytes(_)
SumBytes(toks) == IF toks = <<>> THEN 0 ELSE TokBytes(Head(toks)) + SumBytes(Tail(toks))

\* UTF-8 bytes of an exception message inside a JSON text: a short one, a
\* long one, and the message of PayloadTooLargeError, which spells out both
\* sizes and the name of the variable.
MsgBytes(message) ==
    CASE message.text = "long" -> 3
      [] message.text = "Response payload is n bytes which exceeds TYWRAP_CODEC_MAX_BYTES=max" -> 4
      [] OTHER -> 1

\* len(text.encode('utf-8')) of an encoded response: the envelope (id and
\* protocol), and the result's tokens or the error's message and traceback.
utf8_len(text) ==
    CASE text.kind = "value" -> SumBytes(text.body)
      [] text.kind = "result" -> 2 + SumBytes(text.body)
      [] OTHER -> 2 + MsgBytes(text.error.message) + (IF text.error.traceback THEN 1 ELSE 0)

\* A value passed to the codec that is no response dict.
Bare(value) ==
    [id |-> [k |-> "int", v |-> 0], protocol |-> "-", kind |-> "value", result |-> value,
     error |-> [type |-> "-", message |-> Msg("-"), traceback |-> FALSE]]

\* json.dumps of a response dict: the result is encoded, the other members
\* are integers and strings; or of a bare value.
dumps_response(out, allow_nan, names_value) ==
    IF out.kind = "error"
    THEN Ok([id |-> out.id, protocol |-> out.protocol, kind |-> "error",
             body |-> <<>>, error |-> out.error])
    ELSE LET r == json_dumps(out.result, allow_nan, names_value)
         IN  IF ~r.ok THEN r
             ELSE Ok([id |-> out.id, protocol |-> out.protocol, kind |-> out.kind,
                      body |-> r.v, error |-> out.error])

SafeCodec_encode(out, allow_nan, max_payload_bytes, names_value) ==
    LET r == dumps_response(out, allow_nan, names_value)
    IN  IF ~r.ok
        THEN CASE r.exc.type = "ValueError" ->
                    IF mentions_nan_or_inf(r.exc.message.text)
                    THEN Raise("CodecError", MsgNaN)
                    ELSE Raise("CodecError", encoding_failed(r.exc.message.text))
               [] r.exc.type = "TypeError" ->
                    Raise("CodecError", encoding_failed(r.exc.message.text))
               [] OTHER -> r
        ELSE IF utf8_len(r.v) > max_payload_bytes
             THEN Raise("CodecError", "Payload exceeds max_payload_bytes")
             ELSE r

\* A text given to SafeCodec.decode: its UTF-8 length, whether it is JSON,
\* and the value json.loads makes of it.
Payload(bytes, valid, value) == [t |-> "payload", bytes |-> bytes, valid |-> valid, value |-> value]

\* A plausible slip: a payload of exactly the ceiling is refused.
SafeCodec_decode_inclusive(payload, max_payload_bytes) ==
    IF payload.bytes >= max_payload_bytes
    THEN Raise("CodecError", "Payload exceeds max_payload_bytes")
    ELSE IF ~payload.valid THEN Raise("CodecError", "JSON decoding failed")
    ELSE Ok(payload.value)

\* SafeCodec.decode(payload): the size check, then json.loads.
SafeCodec_decode(payload, max_payload_bytes) ==
    IF payload.bytes > max_payload_bytes
    THEN Raise("CodecError", "Payload exceeds max_payload_bytes")
    ELSE IF ~payload.valid THEN Raise("CodecError", "JSON decoding failed")
    ELSE Ok(payload.value)

(***************************************************************************)
(* Responses                                                               *)
(***************************************************************************)
\* A request id as json.loads returns it: its Python kind and its value.
Id(k, v) == [k |-> k, v |-> v]

\* mid = None
None == [set |-> FALSE, id |-> Id("int", 0)]

Some(id) == [set |-> TRUE, id |-> id]

NoError == [type |-> "-", message |-> Msg("-"), traceback |-> FALSE]

\* { 'id': mid, 'protocol': PROTOCOL, 'result': result }
result_payload(id, result) ==
    [id |-> id, protocol |-> PROTOCOL, kind |-> "result", result |-> result,
     error |-> NoError]

build_error_payload(mid, exc, include_traceback) ==
    [id |-> IF mid.set THEN mid.id ELSE Id("int", -1),
     protocol |-> PROTOCOL, kind |-> "error", result |-> NoValue,
     error |-> [type |-> exc.type, message |-> exc.message,
                traceback |-> include_traceback]]

\* sys.maxsize, the limit _response_codec is built with (cut to 32 bits).
sys_maxsize == 2147483647

\* A plausible slip: the response codec is built with allow_nan=True.
encode_response_allow_nan(out, codec_max_bytes, names_value) ==
    LET r == SafeCodec_encode(out, TRUE, sys_maxsize, names_value)
    IN  IF ~r.ok THEN RaiseExc([type |-> "ValueError", message |-> r.exc.message])
        ELSE IF codec_max_bytes # NoLimit /\ utf8_len(r.v) > codec_max_bytes
             THEN RaiseExc([type |-> "PayloadTooLargeError",
                            message |-> SizedMsg("Response payload is n bytes which exceeds TYWRAP_CODEC_MAX_BYTES=max",
                                                 utf8_len(r.v), codec_max_bytes)])
             ELSE r

\* A plausible slip: a payload of exactly the ceiling is refused.
encode_response_inclusive(out, codec_max_bytes, names_value) ==
    LET r == SafeCodec_encode(out, FALSE, sys_maxsize, names_value)
    IN  IF ~r.ok THEN RaiseExc([type |-> "ValueError", message |-> r.exc.message])
        ELSE IF codec_max_bytes # NoLimit /\ utf8_len(r.v) >= codec_max_bytes
             THEN RaiseExc([type |-> "PayloadTooLargeError",
                            message |-> SizedMsg("Response payload is n bytes which exceeds TYWRAP_CODEC_MAX_BYTES=max",
                                                 utf8_len(r.v), codec_max_bytes)])
             ELSE r

\* A plausible slip: the size of the payload is not compared with the
\* ceiling.
encode_response_unchecked(out, codec_max_bytes, names_value) ==
    LET r == SafeCodec_encode(out, FALSE, sys_maxsize, names_value)
    IN  IF ~r.ok THEN RaiseExc([type |-> "ValueError", message |-> r.exc.message])
        ELSE r

\* encode_response(out): the JSON text, or ValueError / PayloadTooLargeError.
encode_response(out, codec_max_bytes, names_value) ==
    LET r == SafeCodec_encode(out, FALSE, sys_maxsize, names_value)
    IN  IF ~r.ok THEN RaiseExc([type |-> "ValueError", message |-> r.exc.message])
        ELSE IF codec_max_bytes # NoLimit /\ utf8_len(r.v) > codec_max_bytes
             THEN RaiseExc([type |-> "PayloadTooLargeError",
                            message |-> SizedMsg("Response payload is n bytes which exceeds TYWRAP_CODEC_MAX_BYTES=max",
                                                 utf8_len(r.v), codec_max_bytes)])
             ELSE r

\* json.dumps(err_out): the text of the fallback error, never size-checked.
dumps_error(err_out) ==
    [id |-> err_out.id, protocol |-> err_out.protocol, kind |-> "error",
     body |-> <<>>, error |-> err_out.error]

(***************************************************************************)
(* Request lines                                                           *)
(*                                                                         *)
(* A line of stdin after line.strip(), as far as main() and the handlers   *)
(* tell lines apart:                                                       *)
(*   blank   the stripped line is empty                                    *)
(*   bytes   len(line.encode('utf-8'))                                     *)
(*   json    "invalid" | "nonobject" | "object": what json.loads makes     *)
(*   rfc8259 the text is JSON as RFC 8259 defines it; json.loads also      *)
(*           takes the tokens NaN, Infinity and -Infinity                  *)
(*   proto   "ok" | "bad": msg.get('protocol') == PROTOCOL                 *)
(*   id      msg.get('id'): kind "int" | "bool" | "str" | "missing"        *)
(*   method  the five methods, "other" (another string), "nonstr"          *)
(*   params  "object" | "absent" | "null" | "nonobject"                    *)
(*   module, name   the two required strings of the method ("ok"), the     *)
(*           module not importable ("unknown"), the attribute not there    *)
(*           ("noattr"), or missing / empty / not a string ("bad")         *)
(*   args, kwargs   the member as json.loads returns it (a request value), *)
(*           or Absent                                                     *)
(*   handle  params.get('handle'): a handle string, or "" when missing     *)
(***************************************************************************)
\* The UTF-8 size ceilings the bridge is started with, request ceiling
\* first: both unset (NoLimit), or both set.
Ceilings == {<<NoLimit, NoLimit>>, <<8, 5>>}

\* A request of 8 bytes, every member of which is as the protocol asks.
Request(id, method) ==
    [blank |-> FALSE, bytes |-> 8, json |-> "object", rfc8259 |-> TRUE, proto |-> "ok",
     id |-> id, method |-> method, params |-> "object", module |-> "ok",
     name |-> "ok", args |-> List(<<Leaf("int")>>), kwargs |-> Dict(<<>>, <<>>),
     handle |-> ""]

BlankLine ==
    [Request(Id("missing", 0), "nonstr") EXCEPT !.blank = TRUE, !.json = "invalid",
                                                 !.rfc8259 = FALSE]

\* The handle the requests of mixed traffic name.
FirstHandle == "140001"

WellFormed ==
    {Request(Id("int", 3), "meta"), Request(Id("int", 3), "call"),
     Request(Id("int", 7), "instantiate"),
     [Request(Id("int", 3), "call_method") EXCEPT !.handle = FirstHandle],
     [Request(Id("int", 3), "dispose_instance") EXCEPT !.handle = FirstHandle]}

\* Lines with one defect each.  The last but one holds a member whose value
\* is the token NaN; the last names a module that cannot be imported.
Defective ==
    {[Request(Id("int", 3), "meta") EXCEPT !.json = "invalid", !.rfc8259 = FALSE],
     [Request(Id("int", 3), "meta") EXCEPT !.json = "nonobject"],
     [Request(Id("int", 3), "meta") EXCEPT !.proto = "bad"],
     Request(Id("missing", 0), "meta"),
     Request(Id("int", -5), "meta"),
     Request(Id("int", 7), "nonstr"),
     Request(Id("int", 7), "other"),
     [Request(Id("int", 7), "meta") EXCEPT !.params = "nonobject"],
     [Request(Id("int", 7), "meta") EXCEPT !.params = "null"],
     [Request(Id("int", 3), "meta") EXCEPT !.rfc8259 = FALSE],
     [Request(Id("int", 7), "call") EXCEPT !.module = "unknown"]}

\* A well-formed request one byte over the request ceiling.
Oversized == {[Request(Id("int", 7), "meta") EXCEPT !.bytes = 9]}

Lines == {BlankLine} \cup WellFormed \cup Defective \cup Oversized

\* Handle traffic: well-formed requests to construct, use, count and dispose.
HandleLines ==
    {Request(Id("int", 7), "instantiate"), Request(Id("int", 3), "meta")}
    \cup {[Request(Id("int", 3), m) EXCEPT !.handle = h] :
            m \in {"call_method", "dispose_instance"}, h \in Handles}

\* Texts that are not base64: "Q", "QQ", "Q!QQ", and "QUJD=", a full group
\* followed by a padding character.
MalformedTexts == {<<16>>, <<16, 16>>, <<16, NonAlphabet, 16, 16>>, <<16, 20, 9, 3, Pad>>}

\* What a request may carry as args: no member, null, lists (one holding a
\* bytes envelope of b"H"), values that are no list, and lists holding an
\* envelope of a malformed text, as an item and deeper.
ArgsShapes ==
    {Absent, PyNone, List(<<Leaf("int")>>), List(<<TywrapEnvelope(b64encode(<<72>>))>>)}
    \cup {Leaf("int"), Dict(<<>>, <<>>)}
    \cup UNION {{List(<<TywrapEnvelope(m)>>),
                  List(<<Leaf("int"), Dict(<<"a">>, <<List(<<TypedEnvelope(m)>>)>>)>>)} :
                  m \in MalformedTexts}

\* What a request may carry as kwargs.
KwargsShapes ==
    {Absent, PyNone, Dict(<<>>, <<>>), Dict(<<"a">>, <<TypedEnvelope(b64encode(<<72>>))>>)}
    \cup {TywrapEnvelope(b64encode(<<72>>)), TypedEnvelope(b64encode(<<72>>))}
    \cup {Text(<<16>>), List(<<>>)}
    \cup {Dict(<<"a">>, <<List(<<Leaf("int"), TywrapEnvelope(m)>>)>>) : m \in MalformedTexts}

\* call_method requests with a handle or a method name that is missing.
BadNames ==
    {[Request(Id("int", 3), "call_method") EXCEPT !.handle = h, !.name = n] :
        h \in {"", FirstHandle}, n \in {"bad", "ok"}}

\* Argument traffic: call, instantiate and call_method requests that differ
\* in their args member, in their kwargs member, or have both null.
ArgumentLines ==
    BadNames \cup
    UNION {{[Request(Id("int", 3), m) EXCEPT !.handle = FirstHandle, !.args = a] : a \in ArgsShapes}
           \cup {[Request(Id("int", 3), m) EXCEPT !.handle = FirstHandle, !.kwargs = k] : k \in KwargsShapes}
           \cup {[Request(Id("int", 3), m) EXCEPT !.handle = FirstHandle, !.args = PyNone, !.kwargs = PyNone]} :
           m \in {"call", "instantiate", "call_method"}}

(***************************************************************************)
(* What user code does when called: it returns a value or raises.          *)
(***************************************************************************)
ReturnValues ==
    {List(<<Leaf("int")>>), Leaf("nan"), Leaf("np32nan"), Leaf("complex"),
     List(<<Leaf("int"), List(<<Leaf("ninf")>>)>>), Cyclic}

\* Exceptions of user code: the kind, and a short or a long message.
UserExceptions ==
    {[type |-> "KeyError", message |-> Msg("short")],
     [type |-> "ValueError", message |-> Msg("long")]}

UserOutcomes == {Ok(v) : v \in ReturnValues} \cup {RaiseExc(e) : e \in UserExceptions}

(***************************************************************************)
(* Validation: require_protocol, require_str, coerce_list, coerce_dict,    *)
(* deserialize, and the checks dispatch_request and the handlers make      *)
(* before they touch the registry or call user code.                       *)
(***************************************************************************)
\* isinstance(x, int): Python's bool is a subclass of int.
isinstance_int(id) == id.k \in {"int", "bool"}

\* A plausible slip: main never records the id of the parsed request.
recover_id_never(l) == None

\* main(): mid = msg.get('id') when msg is a dict and the id an int.
recover_id(l) ==
    IF l.json = "object" /\ isinstance_int(l.id) THEN Some(l.id) ELSE None

\* A plausible slip: the protocol literal is not compared.
require_protocol_any(l) ==
    IF l.json # "object" THEN Raise("ProtocolError", "Invalid request payload")
    ELSE IF ~isinstance_int(l.id) THEN Raise("ProtocolError", "Invalid request id")
    ELSE Ok(l.id)

require_protocol(l) ==
    IF l.json # "object" THEN Raise("ProtocolError", "Invalid request payload")
    ELSE IF l.proto # "ok" THEN Raise("ProtocolError", "Invalid protocol")
    ELSE IF ~isinstance_int(l.id) THEN Raise("ProtocolError", "Invalid request id")
    ELSE Ok(l.id)

\* coerce_dict(msg.get('params'), 'params') gives {}: the member is absent
\* or null.
params_is_None(l) == l.params \in {"absent", "null"}

\* require_str(params, key) on a module, name or handle member.
require_str(l, v, key) ==
    IF params_is_None(l) \/ v \in {"bad", ""} THEN Raise("ProtocolError", key) ELSE Ok(v)

\* params.get(key): None when the member is absent or null.
params_get(l, member) ==
    IF params_is_None(l) \/ member = Absent THEN PyNone ELSE member

\* A plausible slip: the shape of the member is not checked.
coerce_unchecked(value, message) ==
    IF value = PyNone THEN Ok(List(<<>>)) ELSE Ok(value)

\* coerce_list(value, key); message is f'Invalid {key}'.
coerce_list(value, message) ==
    IF value = PyNone THEN Ok(List(<<>>))
    ELSE IF value.t # "list" THEN Raise("ProtocolError", message)
    ELSE Ok(value)

\* coerce_dict(value, key); message is f'Invalid {key}'.
coerce_dict(value, message) ==
    IF value = PyNone THEN Ok(Dict(<<>>, <<>>))
    ELSE IF value.t # "dict" THEN Raise("ProtocolError", message)
    ELSE Ok(value)

\* deserialize(coerce_list(params.get('args'), 'args'))
deserialize_args(l) ==
    LET c == coerce_list(params_get(l, l.args), "Invalid args")
    IN  IF ~c.ok THEN c ELSE deserialize(c.v)

\* deserialize(coerce_dict(params.get('kwargs'), 'kwargs'))
deserialize_kwargs(l) ==
    LET c == coerce_dict(params_get(l, l.kwargs), "Invalid kwargs")
    IN  IF ~c.ok THEN c ELSE deserialize(c.v)

\* The first four statements of handle_call, handle_instantiate and
\* handle_call_method: two required strings, then args, then kwargs.
handler_params(l, first, first_key, second_key) ==
    LET a == require_str(l, first, first_key)
        b == require_str(l, l.name, second_key)
        c == deserialize_args(l)
        d == deserialize_kwargs(l)
    IN  IF ~a.ok THEN a ELSE IF ~b.ok THEN b ELSE IF ~c.ok THEN c ELSE d

\* Everything of dispatch_request that can raise ProtocolError: the envelope
\* checks, the parameter checks of the handler chosen, the unknown method.
dispatch_check(l) ==
    LET p == require_protocol(l)
    IN  IF ~p.ok THEN p
        ELSE IF l.method = "nonstr" THEN Raise("ProtocolError", "Missing method")
        ELSE IF l.params = "nonobject" THEN Raise("ProtocolError", "Invalid params")
        ELSE CASE l.method = "call" -> handler_params(l, l.module, "Missing module", "Missing functionName")
               [] l.method = "instantiate" -> handler_params(l, l.module, "Missing module", "Missing className")
               [] l.method = "call_method" -> handler_params(l, l.handle, "Missing handle", "Missing methodName")
               [] l.method = "dispose_instance" -> require_str(l, l.handle, "Missing handle")
               [] l.method = "meta" -> Ok("meta")
               [] OTHER -> Raise("ProtocolError", "Unknown method")

\* importlib.import_module(module_name) and getattr(mod, name): the
\* exception raised before user code is called, if any.
resolve(l) ==
    IF l.module = "unknown" THEN Raise("ModuleNotFoundError", "No module named")
    ELSE IF l.name = "noattr" THEN Raise("AttributeError", "has no attribute")
    ELSE Ok("callable")

(***************************************************************************)
(* Configuration: the environment variables and what startup makes of them *)
(*                                                                         *)
(* os.environ.get(name) is None or a string; a string is the sequence of   *)
(* its characters.                                                         *)
(***************************************************************************)
\* A value of an environment variable.
Raw(chars) == [t |-> "environ", chars |-> chars]

\* A Python int.
PyInt(n) == [t |-> "int", n |-> n]

\* The characters the values are made of: a blank, a sign, two digits and
\* a letter.
RawChars == {" ", "-", "0", "7", "x"}

RawValues == {PyNone} \cup {Raw(chars) : chars \in SeqsUpTo(RawChars, MaxRaw)}

RECURSIVE lstrip(_)
lstrip(chars) ==
    IF chars # <<>> /\ Head(chars) = " " THEN lstrip(Tail(chars)) ELSE chars

RECURSIVE rstrip(_)
rstrip(chars) ==
    IF chars # <<>> /\ chars[Len(chars)] = " "
    THEN rstrip(SubSeq(chars, 1, Len(chars) - 1)) ELSE chars

\* str.strip()
strip(chars) == rstrip(lstrip(chars))

DecimalDigits == <<"0", "1", "2", "3", "4", "5", "6", "7", "8", "9">>

isdigit(c) == \E i \in DOMAIN DecimalDigits : DecimalDigits[i] = c

digit(c) == (CHOOSE i \in DOMAIN DecimalDigits : DecimalDigits[i] = c) - 1

RECURSIVE digits_value(_, _)
\* The number the decimal digits write, read left to right.
digits_value(chars, acc) ==
    IF chars = <<>> THEN acc
    ELSE digits_value(Tail(chars), 10 * acc + digit(Head(chars)))

\* int(raw) on a stripped string: an optional sign and at least one digit;
\* anything else raises ValueError.
int(chars) ==
    LET negative == chars # <<>> /\ Head(chars) = "-"
        body == IF negative THEN Tail(chars) ELSE chars
    IN  IF body = <<>> \/ \E i \in DOMAIN body : ~isdigit(body[i])
        THEN Raise("ValueError", "invalid literal for int() with base 10")
        ELSE Ok(PyInt(IF negative THEN 0 - digits_value(body, 0) ELSE digits_value(body, 0)))

\* A plausible slip: a value that is no integer is ignored.
get_max_bytes_lenient(raw, error) ==
    IF raw = PyNone THEN Ok(PyNone)
    ELSE LET stripped == strip(raw.chars)
             value == int(stripped)
         IN  IF stripped = <<>> THEN Ok(PyNone)
             ELSE IF ~value.ok THEN Ok(PyNone)
             ELSE IF value.v.n <= 0 THEN Ok(PyNone)
             ELSE value

\* The body get_codec_max_bytes and get_request_max_bytes share: None for
\* an unset or blank value and for an integer <= 0, the integer otherwise,
\* and the configuration error of the variable for any other text.
get_max_bytes(raw, error) ==
    IF raw = PyNone THEN Ok(PyNone)
    ELSE LET stripped == strip(raw.chars)
             value == int(stripped)
         IN  IF stripped = <<>> THEN Ok(PyNone)
             ELSE IF ~value.ok THEN error
             ELSE IF value.v.n <= 0 THEN Ok(PyNone)
             ELSE value

CodecMaxBytesParseError ==
    Raise("CodecMaxBytesParseError", "TYWRAP_CODEC_MAX_BYTES must be an integer byte count")

RequestMaxBytesParseError ==
    Raise("RequestMaxBytesParseError", "TYWRAP_REQUEST_MAX_BYTES must be an integer byte count")

get_codec_max_bytes(raw) == get_max_bytes(raw, CodecMaxBytesParseError)

get_request_max_bytes(raw) == get_max_bytes(raw, RequestMaxBytesParseError)

\* os.environ, as far as the bridge reads it.
Environ(codec_fallback, codec_max_bytes, request_max_bytes, torch_allow_copy) ==
    [TYWRAP_CODEC_FALLBACK |-> codec_fallback,
     TYWRAP_CODEC_MAX_BYTES |-> codec_max_bytes,
     TYWRAP_REQUEST_MAX_BYTES |-> request_max_bytes,
     TYWRAP_TORCH_ALLOW_COPY |-> torch_allow_copy]

\* os.environ.get(name, '').lower(): the characters of the value in lower
\* case, none when the variable is unset.
get_lower(value) ==
    LET chars == IF value = PyNone THEN <<>> ELSE value.chars
        lower(c) ==
            CASE c = "J" -> "j" [] c = "S" -> "s" [] c = "O" -> "o" [] c = "N" -> "n"
              [] c = "T" -> "t" [] c = "R" -> "r" [] c = "U" -> "u" [] c = "E" -> "e"
              [] c = "Y" -> "y" [] OTHER -> c
    IN  [i \in DOMAIN chars |-> lower(chars[i])]

\* os.environ.get('TYWRAP_CODEC_FALLBACK', '').lower() == 'json'
fallback_json(env) == get_lower(env.TYWRAP_CODEC_FALLBACK) = <<"j", "s", "o", "n">>

\* os.environ.get('TYWRAP_TORCH_ALLOW_COPY', '').lower() in ('1', 'true', 'yes')
torch_allow_copy(env) ==
    get_lower(env.TYWRAP_TORCH_ALLOW_COPY)
       \in {<<"1">>, <<"t", "r", "u", "e">>, <<"y", "e", "s">>}

\* A ceiling as the module keeps it: None is NoLimit.
ceiling(r) == IF r.v = PyNone THEN NoLimit ELSE r.v.n

(***************************************************************************)
(* serialize: the envelope of a value a handler returns                    *)
(*                                                                         *)
(* The arrays, frames and series of the model are ones Arrow and tolist    *)
(* can encode, the sparse matrices have a supported format, the estimators *)
(* have parameters JSON can write, and model_dump does not raise.          *)
(***************************************************************************)
\* A plausible slip: without pyarrow the array is encoded as JSON unasked.
serialize_ndarray_silent(FALLBACK_JSON_, pyarrow_) ==
    IF FALLBACK_JSON_ \/ ~pyarrow_ THEN Ok(Envelope("ndarray", "json", NoValue))
    ELSE Ok(Envelope("ndarray", "arrow", NoValue))

serialize_ndarray(FALLBACK_JSON_, pyarrow_) ==
    IF FALLBACK_JSON_ THEN Ok(Envelope("ndarray", "json", NoValue))
    ELSE IF ~pyarrow_ THEN Raise("RuntimeError", "Arrow encoding unavailable for ndarray")
    ELSE Ok(Envelope("ndarray", "arrow", NoValue))

serialize_dataframe(FALLBACK_JSON_, pyarrow_) ==
    IF FALLBACK_JSON_ THEN Ok(Envelope("dataframe", "json", NoValue))
    ELSE IF ~pyarrow_ THEN Raise("RuntimeError", "Arrow encoding unavailable for pandas.DataFrame")
    ELSE Ok(Envelope("dataframe", "arrow", NoValue))

serialize_series(FALLBACK_JSON_, pyarrow_) ==
    IF FALLBACK_JSON_ THEN Ok(Envelope("series", "json", NoValue))
    ELSE IF ~pyarrow_ THEN Raise("RuntimeError", "Arrow encoding unavailable for pandas.Series")
    ELSE Ok(Envelope("series", "arrow", NoValue))

\* The permission to copy is read from os.environ at every call.
serialize_torch_tensor(obj, FALLBACK_JSON_, pyarrow_, env) ==
    IF obj.copy /\ ~torch_allow_copy(env)
    THEN Raise("RuntimeError", "Torch tensor needs a copy; set TYWRAP_TORCH_ALLOW_COPY=1")
    ELSE LET value == serialize_ndarray(FALLBACK_JSON_, pyarrow_)
         IN  IF ~value.ok THEN value
             ELSE Ok(Envelope("torch.tensor", "ndarray", value.v))

\* serialize_stdlib(obj): the string of a standard scalar extension.
serialize_stdlib(obj) ==
    IF \/ obj.t = "leaf" /\ obj.leaf \in {"decimal", "uuid", "path", "datetime"}
       \/ obj.t = "object" /\ "stdlib" \in obj.is
    THEN Leaf("str")
    ELSE PyNone

\* A plausible slip: the model_dump check is made before the estimator
\* check.
serialize_model_first(obj, FALLBACK_JSON_, pyarrow_, env) ==
    LET is == IF obj.t = "object" THEN obj.is ELSE {}
    IN  IF "ndarray" \in is THEN serialize_ndarray(FALLBACK_JSON_, pyarrow_)
        ELSE IF "dataframe" \in is THEN serialize_dataframe(FALLBACK_JSON_, pyarrow_)
        ELSE IF "series" \in is THEN serialize_series(FALLBACK_JSON_, pyarrow_)
        ELSE IF "sparse" \in is THEN Ok(Envelope("scipy.sparse", "json", NoValue))
        ELSE IF "tensor" \in is THEN serialize_torch_tensor(obj, FALLBACK_JSON_, pyarrow_, env)
        ELSE IF "model" \in is THEN Ok(ModelDump)
        ELSE IF "estimator" \in is THEN Ok(Envelope("sklearn.estimator", "json", NoValue))
        ELSE IF serialize_stdlib(obj) # PyNone THEN Ok(serialize_stdlib(obj))
        ELSE Ok(obj)

\* serialize(obj): the first check that matches chooses the encoder; a
\* value no check matches is returned as it is.
serialize(obj, FALLBACK_JSON_, pyarrow_, env) ==
    LET is == IF obj.t = "object" THEN obj.is ELSE {}
    IN  IF "ndarray" \in is THEN serialize_ndarray(FALLBACK_JSON_, pyarrow_)
        ELSE IF "dataframe" \in is THEN serialize_dataframe(FALLBACK_JSON_, pyarrow_)
        ELSE IF "series" \in is THEN serialize_series(FALLBACK_JSON_, pyarrow_)
        ELSE IF "sparse" \in is THEN Ok(Envelope("scipy.sparse", "json", NoValue))
        ELSE IF "tensor" \in is THEN serialize_torch_tensor(obj, FALLBACK_JSON_, pyarrow_, env)
        ELSE IF "estimator" \in is THEN Ok(Envelope("sklearn.estimator", "json", NoValue))
        ELSE IF "model" \in is THEN Ok(ModelDump)
        ELSE IF serialize_stdlib(obj) # PyNone THEN Ok(serialize_stdlib(obj))
        ELSE Ok(obj)

(***************************************************************************)
(* State                                                                   *)
(***************************************************************************)
VARIABLES
    FALLBACK_JSON,      \* read once at startup
    pyarrow,            \* import pyarrow succeeds in this installation
    environ,            \* os.environ
    environ_at_startup, \* os.environ as it was when the module was imported
    returned,           \* the value the target returned to handle_call for the line
                        \* being processed, in serialize traffic
    CODEC_MAX_BYTES,    \* read once at startup
    REQUEST_MAX_BYTES,  \* read once at startup
    instances,          \* the registry: handle string -> object
    nobj,               \* objects constructed so far (an object is its serial number)
    pc,                 \* where main() is: "read", "try", "encode", "write", "fallback", "done"
    nread,              \* lines taken from stdin
    instances_at_read,  \* the registry as it was when the line being processed was read
    reqs,               \* the non-empty lines read, in order; the last is being processed
    mid,                \* main's mid
    out,                \* main's out
    payload,            \* main's payload (pc = "write") or json.dumps(err_out) (pc = "fallback")
    stdout,             \* the lines sys.stdout.write accepted, in order; req: the request answered
    exit,               \* why main returned: "eof", "broken_pipe", "fallback_failed"
    stderr,             \* the lines written to sys.stderr, in order; req: the request
                        \* being processed
    failed,             \* the requests (indices of reqs) during which a write_payload
                        \* call did not return True
    codec_call,         \* a function of the codec called on its own, with its arguments
    codec_result        \* what that call returned or raised

vars == <<FALLBACK_JSON, pyarrow, environ, environ_at_startup, returned,
          CODEC_MAX_BYTES, REQUEST_MAX_BYTES, instances, nobj, pc, nread,
          instances_at_read, reqs, mid, out, payload, stdout, exit, stderr, failed,
          codec_call, codec_result>>

\* The state of the bridge process.
bridge == <<FALLBACK_JSON, pyarrow, environ, environ_at_startup, returned,
            CODEC_MAX_BYTES, REQUEST_MAX_BYTES, instances, nobj, pc, nread,
            instances_at_read, reqs, mid, out, payload, stdout, exit, stderr, failed>>

codec == <<codec_call, codec_result>>

config == <<FALLBACK_JSON, CODEC_MAX_BYTES, REQUEST_MAX_BYTES, pyarrow, environ_at_startup>>

\* What user code can change and what it returned.
user == <<environ, returned>>

NoOut == [id |-> Id("int", 0), protocol |-> "-", kind |-> "none", result |-> NoValue,
          error |-> NoError]

NoPayload == [id |-> Id("int", 0), protocol |-> "-", kind |-> "none", body |-> <<>>,
              error |-> NoError]

\* The line main() is processing.
line == reqs[Len(reqs)]

\* No function of the codec is called on its own.
NoCall == [fn |-> "-", value |-> NoValue, allow_nan |-> FALSE, max_payload_bytes |-> NoLimit]

NoResult == [ok |-> FALSE, v |-> NoValue, exc |-> NoExc]

\* The module is imported in the environment env: the four module-level
\* reads of os.environ.  An environment in which get_codec_max_bytes or
\* get_request_max_bytes raises starts no bridge.
Startup(env) ==
    /\ get_codec_max_bytes(env.TYWRAP_CODEC_MAX_BYTES).ok
    /\ get_request_max_bytes(env.TYWRAP_REQUEST_MAX_BYTES).ok
    /\ environ = env
    /\ environ_at_startup = env
    /\ FALLBACK_JSON = fallback_json(env)
    /\ CODEC_MAX_BYTES = ceiling(get_codec_max_bytes(env.TYWRAP_CODEC_MAX_BYTES))
    /\ REQUEST_MAX_BYTES = ceiling(get_request_max_bytes(env.TYWRAP_REQUEST_MAX_BYTES))

\* The environments the bridge of mixed, handle and argument traffic is
\* started in: the two ceilings as decimal strings, or no variable at all.
CeilingEnvirons ==
    LET raw(n) == IF n = NoLimit THEN PyNone ELSE Raw(<<DecimalDigits[n + 1]>>)
    IN  {Environ(PyNone, raw(c[2]), raw(c[1]), PyNone) : c \in Ceilings}

\* main() before it reads its first line.
Idle ==
    /\ returned = NoValue
    /\ instances = [h \in {} |-> 0]
    /\ nobj = 0
    /\ pc = "read"
    /\ nread = 0
    /\ instances_at_read = instances
    /\ reqs = <<>>
    /\ mid = None
    /\ out = NoOut
    /\ payload = NoPayload
    /\ stdout = <<>>
    /\ exit = "-"
    /\ stderr = <<>>
    /\ failed = {}

\* The bridge before it reads its first line.
Start ==
    /\ \E env \in CeilingEnvirons : Startup(env)
    /\ pyarrow = FALSE
    /\ Idle

Init ==
    /\ Start
    /\ codec_call = NoCall
    /\ codec_result = NoResult

(***************************************************************************)
(* main(): for line in sys.stdin                                           *)
(***************************************************************************)
\* The run so far is handle traffic over a healthy pipe with no ceilings.
HandleTraffic ==
    /\ \A i \in DOMAIN reqs : reqs[i] \in HandleLines
    /\ nread = Len(reqs)
    /\ failed = {}
    /\ CODEC_MAX_BYTES = NoLimit /\ REQUEST_MAX_BYTES = NoLimit

\* One line arrives.  An empty line is skipped; any other starts an
\* iteration with mid = None and out = None.
ReadLine ==
    /\ pc = "read"
    /\ \E l \in Lines \cup HandleLines :
         /\ \/ nread < MaxLines /\ l \in Lines
            \/ nread < MaxHandleLines /\ l \in HandleLines /\ HandleTraffic
         /\ l.method = "instantiate" => DOMAIN instances # Handles
         /\ nread' = nread + 1
         /\ IF l.blank
            THEN UNCHANGED <<pc, instances_at_read, reqs, mid, out, payload>>
            ELSE /\ reqs' = Append(reqs, l)
                 /\ instances_at_read' = instances
                 /\ pc' = "try"
                 /\ mid' = None
                 /\ out' = NoOut
                 /\ payload' = NoPayload
    /\ UNCHANGED <<config, codec, user, instances, nobj, stdout, exit, stderr, failed>>

\* One line of argument traffic arrives.
ReadArgumentLine ==
    /\ pc = "read"
    /\ nread < MaxArgumentLines
    /\ \E l \in ArgumentLines :
         /\ l.method = "instantiate" => DOMAIN instances # Handles
         /\ reqs' = Append(reqs, l)
    /\ nread' = nread + 1
    /\ instances_at_read' = instances
    /\ pc' = "try"
    /\ mid' = None
    /\ out' = NoOut
    /\ payload' = NoPayload
    /\ UNCHANGED <<config, codec, user, instances, nobj, stdout, exit, stderr, failed>>

\* stdin is at its end: the for loop ends and main returns.
EndOfInput ==
    /\ pc = "read"
    /\ pc' = "done"
    /\ exit' = "eof"
    /\ UNCHANGED <<config, codec, user, instances, nobj, nread, instances_at_read, reqs, mid, out, payload, stdout, stderr, failed>>

\* A plausible slip: a line of exactly the ceiling is refused.
too_large_inclusive(l, request_max_bytes) ==
    request_max_bytes # NoLimit /\ l.bytes >= request_max_bytes

\* The size check at the head of the try block.
too_large(l, request_max_bytes) ==
    request_max_bytes # NoLimit /\ l.bytes > request_max_bytes

\* The try block ends with out set; the response is encoded next.
SetOut(m, o) ==
    /\ mid' = m
    /\ out' = o
    /\ pc' = "encode"
    /\ UNCHANGED <<config, codec, user, nobj, nread, instances_at_read, reqs, payload, stdout, exit, failed>>

\* The try block ends without a word on stderr.
Respond(m, o) == SetOut(m, o) /\ UNCHANGED stderr

\* emit_protocol_diagnostic(message): one line on stderr; an exception of
\* the write is swallowed.
emit_protocol_diagnostic(stream, req) ==
    Append(stream, [text |-> "[tywrap] Protocol error", req |-> req])

\* raise RequestTooLargeError, before json.loads: mid is still None.
RejectTooLarge ==
    /\ pc = "try"
    /\ too_large(line, REQUEST_MAX_BYTES)
    /\ SetOut(mid, build_error_payload(mid,
           [type |-> "RequestTooLargeError",
            message |-> SizedMsg("Request payload is n bytes which exceeds TYWRAP_REQUEST_MAX_BYTES=max",
                                 line.bytes, REQUEST_MAX_BYTES)], FALSE))
    /\ stderr' = emit_protocol_diagnostic(stderr, Len(reqs))
    /\ UNCHANGED instances

\* json.loads raises JSONDecodeError.
RejectInvalidJson ==
    /\ pc = "try"
    /\ ~too_large(line, REQUEST_MAX_BYTES)
    /\ line.json = "invalid"
    /\ SetOut(mid, build_error_payload(mid,
           [type |-> "JSONDecodeError", message |-> Msg("Expecting value")], FALSE))
    /\ stderr' = emit_protocol_diagnostic(stderr, Len(reqs))
    /\ UNCHANGED instances

\* The line went through the size check and json.loads.
Parsed == pc = "try" /\ ~too_large(line, REQUEST_MAX_BYTES) /\ line.json # "invalid"

\* dispatch_request raises ProtocolError: except ProtocolError as e.
RejectProtocol ==
    /\ Parsed
    /\ ~dispatch_check(line).ok
    /\ SetOut(recover_id(line),
               build_error_payload(recover_id(line), dispatch_check(line).exc, FALSE))
    /\ stderr' = emit_protocol_diagnostic(stderr, Len(reqs))
    /\ UNCHANGED instances

\* The request passed every check and reaches the handler of method m.
Dispatched(m) == Parsed /\ dispatch_check(line).ok /\ line.method = m

\* A plausible slip: the generic except clause packages without traceback.
handler_response_no_traceback(l, o, env) ==
    LET res == IF o.ok THEN serialize(o.v, FALLBACK_JSON, pyarrow, env) ELSE o
    IN  IF res.ok THEN result_payload(require_protocol(l).v, res.v)
        ELSE build_error_payload(recover_id(l), res.exc, FALSE)

\* The response of a handler that went to user code: the serialized result
\* under the id dispatch_request returns, or the exception of user code or
\* of serialize, packaged with a traceback by the generic except clause
\* (except Exception as e).
handler_response(l, o, env) ==
    LET res == IF o.ok THEN serialize(o.v, FALLBACK_JSON, pyarrow, env) ELSE o
    IN  IF res.ok THEN result_payload(require_protocol(l).v, res.v)
        ELSE build_error_payload(recover_id(l), res.exc, TRUE)

\* func(*args, **kwargs): the call is made when kwargs is a mapping, and
\* user code returns or raises; when deserialize made something else of
\* kwargs the call itself raises TypeError.
func(l) ==
    IF deserialize_kwargs(l).v.t = "dict" THEN UserOutcomes
    ELSE {Raise("TypeError", "argument after ** must be a mapping")}

HandleCall ==
    /\ Dispatched("call")
    /\ \E o \in (IF resolve(line).ok THEN func(line) ELSE {resolve(line)}) :
         Respond(recover_id(line), handler_response(line, o, environ))
    /\ UNCHANGED instances

\* A plausible slip: the handle is drawn from all addresses, those of
\* objects the registry holds included.
HandleInstantiateAnyAddress ==
    /\ Dispatched("instantiate")
    /\ resolve(line).ok
    /\ \E h \in Handles :
         /\ instances' = [x \in DOMAIN instances \cup {h} |->
                            IF x = h THEN nobj + 1 ELSE instances[x]]
         /\ mid' = recover_id(line)
         /\ out' = result_payload(line.id, Str(h))
         /\ pc' = "encode"
    /\ nobj' = nobj + 1
    /\ UNCHANGED <<config, codec, user, nread, instances_at_read, reqs, payload, stdout, exit, stderr, failed>>

HandleInstantiate ==
    /\ Dispatched("instantiate")
    /\ \/ \E e \in (IF resolve(line).ok THEN {o \in func(line) : ~o.ok}
                    ELSE {resolve(line)}) :
            /\ Respond(recover_id(line), handler_response(line, e, environ))
            /\ UNCHANGED instances
       \/ /\ resolve(line).ok
          /\ \E o \in func(line) : o.ok
          \* handle_id = str(id(obj)): the address of the new object, which
          \* is the address of no object that is alive.
          /\ \E h \in Handles \ DOMAIN instances :
               /\ instances' = [x \in DOMAIN instances \cup {h} |->
                                  IF x = h THEN nobj + 1 ELSE instances[x]]
               /\ mid' = recover_id(line)
               /\ out' = result_payload(line.id, Str(h))
               /\ pc' = "encode"
          /\ nobj' = nobj + 1
          /\ UNCHANGED <<config, codec, user, nread, instances_at_read, reqs, payload, stdout, exit, stderr, failed>>

\* A plausible slip: the handle is not looked up before the call.
HandleCallMethodUnchecked ==
    /\ Dispatched("call_method")
    /\ \E o \in UserOutcomes :
         Respond(recover_id(line), handler_response(line, o, environ))
    /\ UNCHANGED instances

\* A plausible slip: obj = instances.pop(handle_id) takes the object out of
\* the registry for the call.
HandleCallMethodPops ==
    /\ Dispatched("call_method")
    /\ \E o \in (IF line.handle \notin DOMAIN instances
                 THEN {Raise("InstanceHandleError", "Unknown instance handle")}
                 ELSE IF line.name = "noattr" THEN {Raise("AttributeError", "has no attribute")}
                 ELSE UserOutcomes) :
         Respond(recover_id(line), handler_response(line, o, environ))
    /\ instances' = [x \in DOMAIN instances \ {line.handle} |-> instances[x]]

HandleCallMethod ==
    /\ Dispatched("call_method")
    /\ \E o \in (IF line.handle \notin DOMAIN instances
                 THEN {Raise("InstanceHandleError", "Unknown instance handle")}
                 ELSE IF line.name = "noattr" THEN {Raise("AttributeError", "has no attribute")}
                 ELSE func(line)) :
         Respond(recover_id(line), handler_response(line, o, environ))
    /\ UNCHANGED instances

\* A plausible slip: del instances[handle_id] without the membership test.
HandleDisposeInstanceUnchecked ==
    /\ Dispatched("dispose_instance")
    /\ IF line.handle \notin DOMAIN instances
       THEN /\ Respond(recover_id(line),
                       handler_response(line, Raise("KeyError", "short"), environ))
            /\ UNCHANGED instances
       ELSE /\ instances' = [x \in DOMAIN instances \ {line.handle} |-> instances[x]]
            /\ Respond(recover_id(line), result_payload(line.id, Leaf("true")))

HandleDisposeInstance ==
    /\ Dispatched("dispose_instance")
    /\ IF line.handle \notin DOMAIN instances
       THEN /\ Respond(recover_id(line), result_payload(line.id, Leaf("false")))
            /\ UNCHANGED instances
       ELSE /\ instances' = [x \in DOMAIN instances \ {line.handle} |-> instances[x]]
            /\ Respond(recover_id(line), result_payload(line.id, Leaf("true")))

\* A plausible slip: meta counts the objects ever constructed.
HandleMetaCountsConstructed ==
    /\ Dispatched("meta")
    /\ Respond(recover_id(line),
               result_payload(line.id, MetaDict(PROTOCOL, PROTOCOL_VERSION, nobj)))
    /\ UNCHANGED instances

HandleMeta ==
    /\ Dispatched("meta")
    /\ Respond(recover_id(line),
               result_payload(line.id,
                   MetaDict(PROTOCOL, PROTOCOL_VERSION, Cardinality(DOMAIN instances))))
    /\ UNCHANGED instances

(***************************************************************************)
(* main(): encode the response, write it, fall back on any exception       *)
(***************************************************************************)
\* payload = encode_response(out).  An exception goes to the except clause
\* of main, which builds err_out from mid and the exception, without a
\* traceback, and dumps it with json.dumps.
Encode ==
    /\ pc = "encode"
    /\ \E names_value \in BOOLEAN :
         LET r == encode_response(out, CODEC_MAX_BYTES, names_value)
         IN  IF r.ok
             THEN /\ payload' = r.v
                  /\ pc' = "write"
             ELSE /\ payload' = dumps_error(build_error_payload(mid, r.exc, FALSE))
                  /\ pc' = "fallback"
    /\ UNCHANGED <<config, codec, user, instances, nobj, nread, instances_at_read, reqs, mid, out, stdout, exit, stderr, failed>>

\* What sys.stdout.write(payload + '\n'); sys.stdout.flush() can do:
\*   "ok"           both return
\*   "broken_pipe"  BrokenPipeError: the reader is gone, nothing reaches it
\*   "write_error"  write raises another exception; the stream did not take the line
\*   "flush_error"  the stream took the line and flush raises another OSError:
\*                  the line stays in the stream's buffer and goes out with
\*                  the next flush that succeeds
WriteOutcomes == {"ok", "broken_pipe", "write_error", "flush_error"}

\* write_payload(payload): True, False (BrokenPipeError), or the exception
\* it lets through.
write_payload(outcome) ==
    CASE outcome = "ok" -> Ok("True")
      [] outcome = "broken_pipe" -> Ok("False")
      [] OTHER -> Raise("OSError", "short")

\* The stream after sys.stdout.write was called with text + '\n'.
written(stream, text, req, outcome) ==
    IF outcome \in {"ok", "flush_error"}
    THEN Append(stream, [text |-> text, req |-> req])
    ELSE stream

\* main returns and the interpreter shuts down: it flushes sys.stdout once
\* more.  After a BrokenPipeError the line is still in the buffer of the
\* stream, the flush fails again, and the interpreter reports the exception
\* it cannot raise on stderr (and exits with status 120).
interpreter_exit(stream, outcome, req) ==
    IF outcome = "broken_pipe"
    THEN Append(stream, [text |-> "Exception ignored in: <stdout> BrokenPipeError", req |-> req])
    ELSE stream

\* A plausible slip: main returns after the first response.
after_write_return(r) == IF ~r.ok THEN "fallback" ELSE "done"

\* main after write_payload(payload): the next line, return, or the
\* except clause.
after_write(r) ==
    IF ~r.ok THEN "fallback" ELSE IF r.v = "True" THEN "read" ELSE "done"

Write ==
    /\ pc = "write"
    /\ \E o \in WriteOutcomes :
         /\ stdout' = written(stdout, payload, Len(reqs), o)
         /\ pc' = after_write(write_payload(o))
         /\ payload' = IF write_payload(o).ok THEN payload
                       ELSE dumps_error(build_error_payload(mid, write_payload(o).exc, FALSE))
         /\ exit' = IF o = "broken_pipe" THEN "broken_pipe" ELSE exit
         /\ stderr' = interpreter_exit(stderr, o, Len(reqs))
         /\ failed' = IF o = "ok" THEN failed ELSE failed \cup {Len(reqs)}
    /\ UNCHANGED <<config, codec, user, instances, nobj, nread, instances_at_read, reqs, mid, out>>

\* main after write_payload(json.dumps(err_out)): the next line or return.
after_fallback(r) ==
    IF r.ok /\ r.v = "True" THEN "read" ELSE "done"

\* The except clause of main: write_payload(json.dumps(err_out)).
Fallback ==
    /\ pc = "fallback"
    /\ \E o \in WriteOutcomes :
         /\ stdout' = written(stdout, payload, Len(reqs), o)
         /\ pc' = after_fallback(write_payload(o))
         /\ exit' = CASE o = "ok" -> exit
                      [] o = "broken_pipe" -> "broken_pipe"
                      [] OTHER -> "fallback_failed"
         /\ stderr' = interpreter_exit(stderr, o, Len(reqs))
         /\ failed' = IF o = "ok" THEN failed ELSE failed \cup {Len(reqs)}
    /\ UNCHANGED <<config, codec, user, instances, nobj, nread, instances_at_read, reqs, mid, out, payload>>

Next ==
    \/ ReadLine
    \/ EndOfInput
    \/ RejectTooLarge
    \/ RejectInvalidJson
    \/ RejectProtocol
    \/ HandleCall
    \/ HandleInstantiate
    \/ HandleCallMethod
    \/ HandleDisposeInstance
    \/ HandleMeta
    \/ Encode
    \/ Write
    \/ Fallback

Spec == Init /\ [][Next]_vars

\* The bridge fed with argument traffic.
NextArguments ==
    \/ ReadArgumentLine
    \/ EndOfInput
    \/ RejectProtocol
    \/ HandleCall
    \/ HandleInstantiate
    \/ HandleCallMethod
    \/ Encode
    \/ Write
    \/ Fallback

SpecArguments == Init /\ [][NextArguments]_vars

(***************************************************************************)
(* Serialize traffic: calls whose target returns a value of one of the     *)
(* scientific libraries, or changes os.environ                             *)
(***************************************************************************)
MaxSerializeLines == 2

\* The environments the bridge of serialize traffic is started in, and the
\* ones user code makes of os.environ.
SerializeEnvirons ==
    {Environ(PyNone, PyNone, PyNone, PyNone),
     Environ(Raw(<<"J", "S", "O", "N">>), Raw(<<"5">>), Raw(<<"8">>), Raw(<<"Y", "e", "s">>))}

\* What the target of a call of serialize traffic returns:
\*   single       one value of each kind, a contiguous CPU tensor and one
\*                that needs a copy
\*   polymorphic  values two neighbouring checks of serialize match
\*   nested       a list or a mapping that holds one value: an array of
\*                dimension 0 or 1, a value of another kind, or an
\*                estimator with a callable model_dump
\* and a plain integer.
TypedReturns ==
    LET single == {Object({SerializeOrder[i]}, 1, FALSE) : i \in DOMAIN SerializeOrder}
                     \cup {Object({"tensor"}, 1, TRUE)}
        polymorphic == {Object({SerializeOrder[i], SerializeOrder[i + 1]}, 1, FALSE) :
                           i \in 1..(Len(SerializeOrder) - 1)}
        held == single \cup {Object({"ndarray"}, 0, FALSE),
                             Object({"estimator", "model"}, 1, FALSE)}
        nested == {List(<<obj>>) : obj \in held}
                     \cup {Dict(<<"k">>, <<obj>>) : obj \in {Object({"ndarray"}, 1, FALSE),
                                                             Object({"estimator"}, 1, FALSE)}}
    IN  single \cup polymorphic \cup nested \cup {Leaf("int")}

\* The line of serialize traffic: a call.
SerializeLines == {Request(Id("int", 3), "call")}

ReadSerializeLine ==
    /\ pc = "read"
    /\ nread < MaxSerializeLines
    /\ \E l \in SerializeLines : reqs' = Append(reqs, l)
    /\ nread' = nread + 1
    /\ instances_at_read' = instances
    /\ pc' = "try"
    /\ mid' = None
    /\ out' = NoOut
    /\ payload' = NoPayload
    /\ returned' = NoValue
    /\ UNCHANGED <<config, codec, environ, instances, nobj, stdout, exit, stderr, failed>>

\* handle_call whose target returns a value of TypedReturns, or sets
\* os.environ and returns an integer: res = func(*args, **kwargs);
\* return serialize(res).
HandleCallTyped ==
    /\ Dispatched("call")
    /\ resolve(line).ok
    /\ \/ \E res \in TypedReturns :
            /\ returned' = res
            /\ out' = handler_response(line, Ok(res), environ)
            /\ UNCHANGED environ
       \/ \E env \in SerializeEnvirons :
            /\ env # environ
            /\ environ' = env
            /\ returned' = Leaf("int")
            /\ out' = handler_response(line, Ok(Leaf("int")), env)
    /\ mid' = recover_id(line)
    /\ pc' = "encode"
    /\ UNCHANGED <<config, codec, instances, nobj, nread, instances_at_read, reqs, payload, stdout, exit, stderr, failed>>

NextSerialize ==
    \/ ReadSerializeLine
    \/ EndOfInput
    \/ HandleCallTyped
    \/ Encode
    \/ Write
    \/ Fallback

InitSerialize ==
    /\ \E env \in SerializeEnvirons : Startup(env)
    /\ pyarrow \in BOOLEAN
    /\ Idle
    /\ codec_call = NoCall
    /\ codec_result = NoResult

SpecSerialize == InitSerialize /\ [][NextSerialize]_vars

(***************************************************************************)
(* The functions of the codec, called on their own: deserialize,           *)
(* SafeCodec._default_encoder on a byte string, SafeCodec.encode and       *)
(* SafeCodec.decode.  A run is one call: its arguments are chosen at the   *)
(* start, then the function is applied.                                    *)
(***************************************************************************)
Call(fn, value, allow_nan, max_payload_bytes) ==
    [fn |-> fn, value |-> value, allow_nan |-> allow_nan,
     max_payload_bytes |-> max_payload_bytes]

\* The envelope next to the value under test, and the bytes it encodes.
SiblingBytes == <<255>>

SiblingEnvelope == TypedEnvelope(b64encode(SiblingBytes))

\* Values that are no bytes envelope: scalars, a string of base64, empty
\* containers, an object whose __tywrap_bytes__ is 1, an object whose
\* encoding is not 'base64'; and objects that carry the marker of an
\* envelope without a string to decode.
PlainValues ==
    {Leaf("int"), PyNone, Text(b64encode(<<72>>)), List(<<>>), Dict(<<>>, <<>>),
     Dict(<<"__tywrap_bytes__", "b64">>, <<Leaf("int"), Text(b64encode(<<72>>))>>),
     Dict(<<"__type__", "encoding", "data">>, <<TextBytes, Text(<<16>>), Text(b64encode(<<72>>))>>)}

MarkedValues ==
    {Dict(<<"__tywrap_bytes__">>, <<Leaf("true")>>),
     Dict(<<"__tywrap_bytes__", "b64">>, <<Leaf("true"), Leaf("int")>>),
     Dict(<<"__type__", "encoding">>, <<TextBytes, TextBase64>>),
     Dict(<<"__type__", "encoding", "data">>, <<TextBytes, TextBase64, List(<<>>)>>)}

\* The values deserialize is called on: envelopes of every byte string, in
\* both shapes, at every depth, next to another envelope; envelopes of
\* malformed texts; and values without an envelope.
DeserializeInputs ==
    {Wrap(e, SiblingEnvelope, ctx) :
        e \in UNION {{TywrapEnvelope(b64encode(b)), TypedEnvelope(b64encode(b))} : b \in ByteStrings},
        ctx \in Contexts}
    \cup {Wrap(TywrapEnvelope(m), SiblingEnvelope, ctx) : m \in MalformedTexts, ctx \in Contexts}
    \cup {Wrap(v, Leaf("int"), ctx) : v \in PlainValues \cup MarkedValues, ctx \in Contexts}

\* The values SafeCodec.encode is called on: a scalar (an integer, a long
\* string, NaN, the infinities, a numpy NaN, a complex number) at every
\* depth, and a list that contains itself.
EncodeInputs ==
    {Wrap(Leaf(x), Leaf("int"), ctx) :
        x \in {"int", "huge", "nan", "inf", "ninf", "np32nan", "complex"}, ctx \in Contexts}
    \cup {Cyclic}

\* max_payload_bytes of the codecs the model builds.
PayloadCeilings == {5, 6, sys_maxsize}

\* The texts SafeCodec.decode is called on: 4 to 7 bytes, JSON or not.
DecodeInputs == {Payload(n, valid, Leaf("int")) : n \in 4..7, valid \in BOOLEAN}

CodecCalls ==
    {Call("deserialize", v, FALSE, NoLimit) : v \in DeserializeInputs}
    \cup {Call("_default_encoder", Bytes(b), FALSE, NoLimit) : b \in ByteStrings}
    \cup {Call("encode", v, a, m) : v \in EncodeInputs, a \in BOOLEAN, m \in PayloadCeilings}
    \cup {Call("decode", v, FALSE, m) : v \in DecodeInputs, m \in PayloadCeilings}
    \cup {Call(fn, raw, FALSE, NoLimit) :
             fn \in {"get_codec_max_bytes", "get_request_max_bytes"}, raw \in RawValues}

InitCodec ==
    /\ Start
    /\ REQUEST_MAX_BYTES = NoLimit
    /\ codec_call \in CodecCalls
    /\ codec_result = NoResult

\* The function named is called and has not returned yet.
Calling(fn) == codec_call.fn = fn /\ codec_result = NoResult

Deserialize ==
    /\ Calling("deserialize")
    /\ codec_result' = deserialize(codec_call.value)
    /\ UNCHANGED <<bridge, codec_call>>

DefaultEncoder ==
    /\ Calling("_default_encoder")
    /\ codec_result' = Ok(encode_bytes(codec_call.value.data))
    /\ UNCHANGED <<bridge, codec_call>>

SafeCodecEncode ==
    /\ Calling("encode")
    /\ \E names_value \in BOOLEAN :
         codec_result' = SafeCodec_encode(Bare(codec_call.value), codec_call.allow_nan,
                                          codec_call.max_payload_bytes, names_value)
    /\ UNCHANGED <<bridge, codec_call>>

SafeCodecDecode ==
    /\ Calling("decode")
    /\ codec_result' = SafeCodec_decode(codec_call.value, codec_call.max_payload_bytes)
    /\ UNCHANGED <<bridge, codec_call>>

\* CODEC_MAX_BYTES = get_codec_max_bytes(), at import.
GetCodecMaxBytes ==
    /\ Calling("get_codec_max_bytes")
    /\ codec_result' = get_codec_max_bytes(codec_call.value)
    /\ UNCHANGED <<bridge, codec_call>>

\* REQUEST_MAX_BYTES = get_request_max_bytes(), at import.
GetRequestMaxBytes ==
    /\ Calling("get_request_max_bytes")
    /\ codec_result' = get_request_max_bytes(codec_call.value)
    /\ UNCHANGED <<bridge, codec_call>>

NextCodec ==
    \/ Deserialize
    \/ DefaultEncoder
    \/ SafeCodecEncode
    \/ SafeCodecDecode
    \/ GetCodecMaxBytes
    \/ GetRequestMaxBytes

SpecCodec == InitCodec /\ [][NextCodec]_vars

(***************************************************************************)
(* Vocabulary of the properties                                            *)
(***************************************************************************)
\* The lines of stdout written while request r was processed.
Answers(r) == {k \in DOMAIN stdout : stdout[k].req = r}

\* main() is through with request r.
Done(r) == r < Len(reqs) \/ pc \in {"read", "done"}

\* main() is through with the request read last; mid and out are still
\* those of that request.
Finished == reqs # <<>> /\ pc \in {"read", "done"}

\* No write to stdout has ended the loop.
OutputOpen == exit \in {"-", "eof"}

\* The try block ended in the generic except clause with an exception that
\* user code raised.
UserRaised == out.kind = "error" /\ out.error.type \in {e.type : e \in UserExceptions}

RECURSIVE HasLeaf(_, _)
\* Value v holds a scalar of one of the kinds S.
HasLeaf(v, S) ==
    CASE v.t = "leaf" -> v.leaf \in S
      [] v.t = "list" -> \E i \in DOMAIN v.items : HasLeaf(v.items[i], S)
      [] v.t = "dict" -> \E i \in DOMAIN v.vals : HasLeaf(v.vals[i], S)
      [] OTHER -> FALSE

RECURSIVE HasCycle(_)
\* Value v holds a container that contains itself.
HasCycle(v) ==
    CASE v.t = "cyclic" -> TRUE
      [] v.t = "list" -> \E i \in DOMAIN v.items : HasCycle(v.items[i])
      [] OTHER -> FALSE

\* Value v holds NaN, Infinity or -Infinity.
NonFinite(v) == HasLeaf(v, {"nan", "inf", "ninf", "np32nan"})

\* The handler returned a value holding NaN/Infinity or a cycle.
ReturnedNonFiniteOrCyclic ==
    out.kind = "result" /\ (NonFinite(out.result) \/ HasCycle(out.result))

\* The handler returned a value the response codec cannot encode.
ReturnedUnencodable ==
    out.kind = "result"
    /\ (NonFinite(out.result) \/ HasCycle(out.result) \/ HasLeaf(out.result, {"complex"}))

\* The request passes every check of the protocol and carries an int id.
WellFormedWithIntId(l) == dispatch_check(l).ok /\ l.id.k = "int"

\* The try block of the request read last has ended: out is its response.
Tried == reqs # <<>> /\ pc # "try"

\* The line went past the size check and json.loads returned.
WasParsed(l) ==
    /\ REQUEST_MAX_BYTES = NoLimit \/ l.bytes <= REQUEST_MAX_BYTES
    /\ l.json # "invalid"

\* The line is a JSON object with an integer id member.
HasIntegerId(l) == l.json = "object" /\ l.id.k = "int"

\* The try block ended with an error of the given kind, without traceback.
RejectedAs(type) ==
    out.kind = "error" /\ out.error.type = type /\ ~out.error.traceback

\* The registry is as it was when the line was read.
RegistryUntouched == instances = instances_at_read

\* The response of the request read last went out as the try block left it:
\* it fits the response ceiling and no write failed.
WrittenAsEncoded ==
    /\ Len(reqs) \notin failed
    /\ out.kind = "error" =>
          (CODEC_MAX_BYTES = NoLimit \/ utf8_len(dumps_error(out)) <= CODEC_MAX_BYTES)

\* Every line written for the request read last is an error of the kind.
AnswersAre(type) ==
    \A k \in Answers(Len(reqs)) :
       stdout[k].text.kind = "error" /\ stdout[k].text.error.type = type

\* Line k of stdout is the result of an instantiate request.
IsMintedHandle(k) ==
    stdout[k].text.kind = "result" /\ reqs[stdout[k].req].method = "instantiate"

\* Request i is a dispose_instance of handle h that was answered true.
DisposedBy(i, h) ==
    /\ reqs[i].method = "dispose_instance" /\ reqs[i].handle = h
    /\ \E k \in Answers(i) : stdout[k].text.kind = "result" /\ stdout[k].text.body = <<"true">>

(***************************************************************************)
(* Properties                                                              *)
(***************************************************************************)
\* C1: as long as no write has shown the output pipe closed or ended the
\* loop, every non-empty line main() is through with has exactly one line
\* on stdout, and every line on stdout answers a non-empty line that was
\* read (an empty line produces none).
C1_ExactlyOneResponsePerLine ==
    /\ \A k \in DOMAIN stdout :
         stdout[k].req \in 1..Len(reqs) /\ ~reqs[stdout[k].req].blank
    /\ OutputOpen =>
         \A r \in 1..Len(reqs) : Done(r) => Cardinality(Answers(r)) = 1

\* C2: while a request is parsed or dispatched every earlier request has
\* its response on stdout, and the k-th line of stdout answers the k-th
\* non-empty request line.
C2_KthResponseAnswersKthRequest ==
    /\ pc \in {"try", "encode"} => \A r \in 1..(Len(reqs) - 1) : Answers(r) # {}
    /\ \A k \in DOMAIN stdout : stdout[k].req = k

\* C3: every line written for a well-formed request with an
\* integer id i has id i and protocol "tywrap/1", on every error path.
C3_IdEchoedOnEveryPath ==
    \A k \in DOMAIN stdout :
       LET l == reqs[stdout[k].req]
       IN  WellFormedWithIntId(l) =>
             stdout[k].text.id = l.id /\ stdout[k].text.protocol = PROTOCOL

\* C4: a request line has at most one line on stdout, whatever fails while
\* it is processed.
C4_AtMostOneResponsePerLine ==
    \A r \in 1..Len(reqs) : Cardinality(Answers(r)) <= 1

\* C5: no line carrying a result holds a NaN, Infinity or -Infinity token;
\* when the handler's return value holds a non-finite float or a cycle,
\* every line written for the request is an error, and one is written
\* unless the output failed.
C5_NoNonFiniteResult ==
    /\ \A k \in DOMAIN stdout :
         stdout[k].text.kind = "result" =>
           \A i \in DOMAIN stdout[k].text.body : stdout[k].text.body[i] \notin NanTokens
    /\ ReturnedNonFiniteOrCyclic =>
         /\ pc # "write"
         /\ \A k \in Answers(Len(reqs)) : stdout[k].text.kind = "error"
         /\ Finished /\ OutputOpen => Answers(Len(reqs)) # {}

\* A handler returned a value holding a non-finite float and the request
\* was answered with an error.
C5_Witness ==
    /\ Finished
    /\ out.kind = "result" /\ NonFinite(out.result)
    /\ \E k \in Answers(Len(reqs)) : stdout[k].text.kind = "error"

\* C6: when the handler's return value cannot be encoded and the write of
\* the response succeeds, the error written has type "CodecError" and no
\* traceback, and for NaN/Infinity a message containing "NaN".
C6_EncodeFailureIsCodecError ==
    (ReturnedUnencodable /\ Len(reqs) \notin failed) =>
       \A k \in Answers(Len(reqs)) :
          /\ stdout[k].text.kind = "error"
          /\ stdout[k].text.error.type = "CodecError"
          /\ ~stdout[k].text.error.traceback
          /\ NonFinite(out.result) => stdout[k].text.error.message.text = MsgNaN

C10_TracebackOnlyForUserCode ==
    /\ \A k \in DOMAIN stdout :
         (stdout[k].text.kind = "error"
          /\ stdout[k].text.error.type \in
               {"ProtocolError", "RequestTooLargeError", "PayloadTooLargeError",
                "CodecError", "InstanceHandleError", "JSONDecodeError"})
            => ~stdout[k].text.error.traceback
    /\ \A k \in Answers(Len(reqs)) :
         (stdout[k].text.kind = "error" /\ stdout[k].text.error.traceback)
            => (UserRaised \/ out.error.type \in {"ModuleNotFoundError", "AttributeError"})

\* C11: a line that is not JSON (and is within the request ceiling) ends
\* the try block with a JSONDecodeError under id -1 and without traceback,
\* leaves the registry as it was, and is answered with that one error when
\* the response is written as encoded.
C11_InvalidJsonIsJSONDecodeError ==
    (Tried /\ ~line.rfc8259
       /\ (REQUEST_MAX_BYTES = NoLimit \/ line.bytes <= REQUEST_MAX_BYTES)) =>
       /\ RejectedAs("JSONDecodeError")
       /\ out.id = Id("int", -1)
       /\ RegistryUntouched
       /\ WrittenAsEncoded =>
            /\ AnswersAre("JSONDecodeError")
            /\ Cardinality(Answers(Len(reqs))) <= 1

\* The envelope defects C12 lists.
EnvelopeDefect(l) ==
    \/ l.json = "nonobject"
    \/ l.proto # "ok"
    \/ l.method \in {"nonstr", "other"}
    \/ l.params \in {"null", "nonobject"}

\* C12 (as stated): a parsed line with one of the envelope defects, a
\* params member that is present and not an object included, ends the try
\* block with a ProtocolError, leaves the registry as it was and is answered
\* with ProtocolError.
C12_EnvelopeDefectIsProtocolError ==
    (Tried /\ WasParsed(line) /\ EnvelopeDefect(line)) =>
       /\ RejectedAs("ProtocolError")
       /\ RegistryUntouched
       /\ WrittenAsEncoded => AnswersAre("ProtocolError")

\* C12 (amended): as C12, where a params member of null counts as absent:
\* the defect is a params member that is neither null nor an object.
C12_EnvelopeDefectIsProtocolErrorNullParams ==
    (Tried /\ WasParsed(line) /\ EnvelopeDefect(line) /\ line.params # "null") =>
       /\ RejectedAs("ProtocolError")
       /\ RegistryUntouched
       /\ WrittenAsEncoded => AnswersAre("ProtocolError")

\* A request naming an unknown method was answered with ProtocolError.
C12_Witness ==
    /\ Finished /\ WrittenAsEncoded
    /\ line.method = "other"
    /\ \E k \in Answers(Len(reqs)) : stdout[k].text.error.type = "ProtocolError"

\* C13: a parsed request whose id is absent or is not a non-negative
\* integer ends the try block with a ProtocolError and leaves the registry
\* as it was.
C13_BadIdIsProtocolError ==
    (Tried /\ WasParsed(line) /\ line.json = "object"
       /\ ~(line.id.k = "int" /\ line.id.v >= 0)) =>
       /\ RejectedAs("ProtocolError")
       /\ RegistryUntouched

\* C14: a line of stdout has id -1 only when its request line holds no
\* integer id; a line written for a request that holds one carries it.
C14_MinusOneOnlyWhenUnrecoverable ==
    \A k \in DOMAIN stdout :
       LET l == reqs[stdout[k].req]
       IN  /\ stdout[k].text.id = Id("int", -1) => (~HasIntegerId(l) \/ l.id.v = -1)
           /\ HasIntegerId(l) => stdout[k].text.id = l.id

C16_TooLargeKeepsId ==
    \A k \in DOMAIN stdout :
       (stdout[k].text.kind = "error"
        /\ stdout[k].text.error.type = "RequestTooLargeError"
        /\ HasIntegerId(reqs[stdout[k].req]))
          => stdout[k].text.id = reqs[stdout[k].req].id

\* C17: with a response ceiling C, when no write fails the line written is
\* the encoded response if that is C bytes or less, and otherwise a
\* PayloadTooLargeError under the response's id, without traceback, whose
\* message gives the size of the encoded response and C; with no ceiling
\* the encoded response is written.
C17_ResponseCeiling ==
    (Finished /\ Len(reqs) \notin failed) =>
       LET enc == dumps_response(out, FALSE, TRUE)
       IN  enc.ok =>
             \A k \in Answers(Len(reqs)) :
                IF CODEC_MAX_BYTES # NoLimit /\ utf8_len(enc.v) > CODEC_MAX_BYTES
                THEN /\ stdout[k].text.kind = "error"
                     /\ stdout[k].text.id = out.id
                     /\ stdout[k].text.error.type = "PayloadTooLargeError"
                     /\ ~stdout[k].text.error.traceback
                     /\ stdout[k].text.error.message.n = utf8_len(enc.v)
                     /\ stdout[k].text.error.message.max = CODEC_MAX_BYTES
                ELSE stdout[k].text = enc.v

\* A result larger than the ceiling was replaced by PayloadTooLargeError.
C17_Witness ==
    /\ Finished /\ Len(reqs) \notin failed
    /\ out.kind = "result"
    /\ \E k \in Answers(Len(reqs)) :
          /\ stdout[k].text.error.type = "PayloadTooLargeError"
          /\ stdout[k].text.id = line.id

\* C18: a well-formed call_method whose handle is not in the registry ends
\* the try block with an InstanceHandleError, leaves the registry as it was
\* and is answered with that error when the response is written as encoded.
C18_UnknownHandleIsInstanceHandleError ==
    (Tried /\ WasParsed(line) /\ dispatch_check(line).ok
       /\ line.method = "call_method"
       /\ line.handle \notin DOMAIN instances_at_read) =>
       /\ out.kind = "error" /\ out.error.type = "InstanceHandleError"
       /\ RegistryUntouched
       /\ WrittenAsEncoded => AnswersAre("InstanceHandleError")

\* A handle was minted, disposed, and then named by a call_method that was
\* answered with InstanceHandleError.
C18_Witness ==
    /\ Finished /\ Len(reqs) = 3
    /\ reqs[1].method = "instantiate"
    /\ reqs[2].method = "dispose_instance" /\ reqs[3].method = "call_method"
    /\ reqs[2].handle = reqs[3].handle
    /\ Len(stdout) = 3
    /\ stdout[1].text.body = <<reqs[2].handle>>
    /\ stdout[2].text.body = <<"true">>
    /\ stdout[3].text.error.type = "InstanceHandleError"

\* C19: a well-formed dispose_instance of a live handle gives the result
\* true and removes that handle and no other; of a handle that is not live
\* it gives the result false and leaves the registry as it was.
C19_DisposeIsIdempotent ==
    (Tried /\ WasParsed(line) /\ dispatch_check(line).ok
       /\ line.method = "dispose_instance") =>
       /\ out.kind = "result"
       /\ IF line.handle \in DOMAIN instances_at_read
          THEN /\ out.result = Leaf("true")
               /\ DOMAIN instances = DOMAIN instances_at_read \ {line.handle}
               /\ \A h \in DOMAIN instances : instances[h] = instances_at_read[h]
          ELSE /\ out.result = Leaf("false")
               /\ RegistryUntouched
       /\ Len(reqs) \notin failed =>
            \A k \in Answers(Len(reqs)) :
               stdout[k].text.kind = "result" /\ stdout[k].text.id = line.id

\* A handle was minted and disposed twice: true, then false.
C19_Witness ==
    /\ Finished /\ Len(reqs) = 3
    /\ reqs[1].method = "instantiate"
    /\ reqs[2].method = "dispose_instance" /\ reqs[3] = reqs[2]
    /\ Len(stdout) = 3
    /\ stdout[1].text.body = <<reqs[2].handle>>
    /\ stdout[2].text.body = <<"true">>
    /\ stdout[3].text.body = <<"false">>

\* C20: no two instantiate results on stdout are the same handle string.
C20_HandlesNeverReused ==
    \A j, k \in DOMAIN stdout :
       (j < k /\ IsMintedHandle(j) /\ IsMintedHandle(k))
          => stdout[j].text.body # stdout[k].text.body

\* C21: once dispose_instance(h) has returned true, every later call_method
\* with handle h is answered with InstanceHandleError, whatever requests,
\* further instantiate requests included, were processed in between.
C21_DisposedIsTerminal ==
    (Tried /\ line.method = "call_method" /\ WasParsed(line) /\ dispatch_check(line).ok
       /\ \E i \in 1..(Len(reqs) - 1) : DisposedBy(i, line.handle))
    => (out.kind = "error" /\ out.error.type = "InstanceHandleError")

\* C22: a handle that was live when the line was read maps to the same
\* object afterwards, unless the line is a dispose_instance of that handle
\* answered true; and the handle an instantiate returns maps to the object
\* that instantiate constructed, an object no handle mapped to before.
C22_LiveHandleKeepsItsObject ==
    /\ \A h \in DOMAIN instances_at_read :
          IF h \in DOMAIN instances
          THEN instances[h] = instances_at_read[h]
          ELSE /\ Tried /\ line.method = "dispose_instance" /\ line.handle = h
               /\ out = result_payload(line.id, Leaf("true"))
    /\ (Tried /\ line.method = "instantiate" /\ out.kind = "result") =>
          \E h \in DOMAIN instances :
             /\ out.result = Str(h)
             /\ instances[h] = nobj
             /\ \A g \in DOMAIN instances_at_read : instances_at_read[g] < nobj

\* Two objects were constructed and the second disposed of: the first
\* handle still maps to the first object.
C22_Witness ==
    /\ Finished /\ Len(reqs) = 3
    /\ reqs[1].method = "instantiate" /\ reqs[2].method = "instantiate"
    /\ reqs[3].method = "dispose_instance"
    /\ Len(stdout) = 3
    /\ stdout[2].text.body = <<reqs[3].handle>>
    /\ stdout[3].text.body = <<"true">>
    /\ \E h \in DOMAIN instances : stdout[1].text.body = <<h>> /\ instances[h] = 1

\* C23: a meta request is answered with protocol "tywrap/1", protocolVersion 1
\* and instances equal to the number of handles in the registry, and leaves
\* the registry as it was.
C23_MetaCountsLiveHandles ==
    (Tried /\ line.method = "meta" /\ WasParsed(line) /\ dispatch_check(line).ok) =>
       /\ out = result_payload(line.id,
                    MetaDict("tywrap/1", 1, Cardinality(DOMAIN instances_at_read)))
       /\ RegistryUntouched
       /\ \A k \in Answers(Len(reqs)) :
             stdout[k].text.kind = "result" =>
                stdout[k].text.body =
                   <<"{", "\"protocol\":", "tywrap/1", "\"protocolVersion\":", "1",
                     "\"instances\":", ToString(Cardinality(DOMAIN instances)), "}">>

\* Two handles are live and a meta request was answered with the count 2.
C23_Witness ==
    /\ Finished /\ line.method = "meta" /\ Len(reqs) = 3
    /\ Cardinality(DOMAIN instances) = 2
    /\ Len(stdout) = 3
    /\ stdout[3].text.body[7] = "2"

\* C24: when a write to stdout hits a closed pipe, main returns: the request
\* that was being answered is the last one read, nothing of it is on stdout
\* after the failed write, and stderr holds nothing but the diagnostics of
\* the requests rejected before; and when stdin ends, every line read has an
\* answer on stdout.
C24_BrokenPipeEndsQuietly ==
    /\ exit = "broken_pipe" =>
          /\ pc = "done"
          /\ ~ENABLED ReadLine
          /\ Len(reqs) \in failed
          /\ \A k \in DOMAIN stderr : stderr[k].text = "[tywrap] Protocol error"
    /\ exit = "eof" =>
          /\ pc = "done"
          /\ \A r \in DOMAIN reqs : Answers(r) # {}

\* The member is absent, null, or of the kind t.
ShapeAccepted(member, t) == member = Absent \/ member = PyNone \/ member.t = t

\* The request read last is a call, instantiate or call_method that passed
\* the size check and json.loads.
TriedWithArguments ==
    /\ Tried /\ WasParsed(line) /\ require_protocol(line).ok /\ line.params = "object"
    /\ line.method \in {"call", "instantiate", "call_method"}

\* C25: a call, instantiate or call_method whose args is neither absent,
\* null nor a list, or whose kwargs is neither absent, null nor an object, is
\* answered with ProtocolError and reaches no user code (the error is the
\* bridge's own and the registry is as before); a null or absent args is an
\* empty list, a null or absent kwargs an empty mapping, and neither is
\* refused.
C25_ArgsAndKwargsShape ==
    TriedWithArguments =>
       /\ ~(ShapeAccepted(line.args, "list") /\ ShapeAccepted(line.kwargs, "dict")) =>
             /\ RejectedAs("ProtocolError")
             /\ out.error.message.text \in {"Invalid args", "Invalid kwargs"}
             /\ RegistryUntouched
       /\ (ShapeAccepted(line.args, "list") /\ ShapeAccepted(line.kwargs, "dict")) =>
             ~(out.kind = "error" /\ out.error.message.text \in {"Invalid args", "Invalid kwargs"})
       /\ line.args \in {Absent, PyNone} => deserialize_args(line) = Ok(List(<<>>))
       /\ line.kwargs \in {Absent, PyNone} => deserialize_kwargs(line) = Ok(Dict(<<>>, <<>>))

\* A call whose args is a number was answered with ProtocolError.
C25_Witness ==
    /\ Finished /\ line.method = "call" /\ line.args = Leaf("int")
    /\ Len(stdout) = 1
    /\ stdout[1].text.kind = "error" /\ stdout[1].text.error.type = "ProtocolError"
    /\ stdout[1].text.error.message.text = "Invalid args"

\* The text is base64 as RFC 4648 writes it: groups of four characters of
\* the alphabet, the last one ending in at most two padding characters.
IsBase64(chars) ==
    /\ Len(chars) % 4 = 0
    /\ \E p \in 0..2 :
          /\ p <= Len(chars)
          /\ \A i \in DOMAIN chars :
                IF i <= Len(chars) - p THEN chars[i] <= 63 ELSE chars[i] = Pad

\* The value is a bytes envelope of either shape.
IsEnvelope(v) ==
    /\ v.t = "dict"
    /\ \/ dict_get(v, "__tywrap_bytes__") = Leaf("true") /\ dict_get(v, "b64").t = "text"
       \/ /\ dict_get(v, "__type__") = TextBytes /\ dict_get(v, "encoding") = TextBase64
          /\ dict_get(v, "data").t = "text"

\* The text a bytes envelope carries.
EnvelopeText(v) ==
    IF dict_get(v, "__tywrap_bytes__") = Leaf("true")
    THEN dict_get(v, "b64").chars ELSE dict_get(v, "data").chars

RECURSIVE HasMalformedEnvelope(_)
\* The value holds, at some depth, a bytes envelope whose text is not base64.
HasMalformedEnvelope(v) ==
    CASE v.t = "list" -> \E i \in DOMAIN v.items : HasMalformedEnvelope(v.items[i])
      [] v.t = "dict" ->
           IF IsEnvelope(v) THEN ~IsBase64(EnvelopeText(v))
           ELSE \E i \in DOMAIN v.vals : HasMalformedEnvelope(v.vals[i])
      [] OTHER -> FALSE

\* C27: a call, instantiate or call_method whose args or kwargs hold, at any
\* depth, a bytes envelope with malformed base64 is answered with the
\* ProtocolError "Invalid bytes envelope: invalid base64", reaches no user
\* code and leaves the registry as it was.
C27_MalformedBase64IsProtocolError ==
    (/\ TriedWithArguments
     /\ ShapeAccepted(line.args, "list") /\ ShapeAccepted(line.kwargs, "dict")
     /\ HasMalformedEnvelope(line.args) \/ HasMalformedEnvelope(line.kwargs))
    => /\ RejectedAs("ProtocolError")
       /\ out.error.message.text = "Invalid bytes envelope: invalid base64"
       /\ RegistryUntouched

\* The function named was called and has returned or raised.
Applied(fn) == codec_call.fn = fn /\ codec_result # NoResult

\* The object carries the marker of a bytes envelope.
IsMarked(v) ==
    /\ v.t = "dict"
    /\ \/ dict_get(v, "__tywrap_bytes__") = Leaf("true")
       \/ dict_get(v, "__type__") = TextBytes /\ dict_get(v, "encoding") = TextBase64

RECURSIVE HasEnvelope(_)
\* The value holds, at some depth, a bytes envelope of either shape.
HasEnvelope(v) ==
    CASE v.t = "list" -> \E i \in DOMAIN v.items : HasEnvelope(v.items[i])
      [] v.t = "dict" -> IsEnvelope(v) \/ \E i \in DOMAIN v.vals : HasEnvelope(v.vals[i])
      [] OTHER -> FALSE

RECURSIVE HasMarked(_)
\* The value holds, at some depth, an object with the marker of an envelope.
HasMarked(v) ==
    CASE v.t = "list" -> \E i \in DOMAIN v.items : HasMarked(v.items[i])
      [] v.t = "dict" -> IsMarked(v) \/ \E i \in DOMAIN v.vals : HasMarked(v.vals[i])
      [] OTHER -> FALSE

\* deserialize put the byte strings in the place of their envelopes, in
\* both shapes and at every depth, and left the containers around them as
\* they were.
EnvelopesReplaced ==
    \A ctx \in Contexts, b \in ByteStrings :
       codec_call.value \in {Wrap(TywrapEnvelope(b64encode(b)), SiblingEnvelope, ctx),
                             Wrap(TypedEnvelope(b64encode(b)), SiblingEnvelope, ctx)}
          => codec_result = Ok(Wrap(Bytes(b), Bytes(SiblingBytes), ctx))

\* C26: deserialize replaces every bytes envelope by the byte string it
\* encodes and keeps lists, objects and scalars as they are; a value that
\* holds no bytes envelope is returned unchanged.
C26_DeserializeIsStructural ==
    Applied("deserialize") =>
       /\ EnvelopesReplaced
       /\ ~HasEnvelope(codec_call.value) => codec_result = Ok(codec_call.value)

\* C26, amended: a value is returned unchanged when no object in it carries
\* the marker of an envelope (__tywrap_bytes__ true, or __type__ 'bytes' with
\* encoding 'base64'); an object with the marker and no string to decode is
\* refused with ProtocolError.
C26_DeserializeIsStructuralUnlessMarked ==
    Applied("deserialize") =>
       /\ EnvelopesReplaced
       /\ ~HasMarked(codec_call.value) => codec_result = Ok(codec_call.value)
       /\ (HasMarked(codec_call.value) /\ ~HasEnvelope(codec_call.value)) =>
             /\ ~codec_result.ok /\ codec_result.exc.type = "ProtocolError"
             /\ codec_result.exc.message.text \in {"Invalid bytes envelope: missing b64",
                                                    "Invalid bytes envelope: missing data"}

\* An envelope of the two bytes 'H' 0xff, inside an object inside a list,
\* came back as those two bytes in the same place.
C26_Witness ==
    /\ Applied("deserialize")
    /\ codec_call.value = Wrap(TywrapEnvelope(b64encode(<<72, 255>>)), SiblingEnvelope,
                               <<"list", "dict">>)
    /\ codec_result = Ok(Wrap(Bytes(<<72, 255>>), Bytes(SiblingBytes), <<"list", "dict">>))

\* C28: the response encoding of a byte string b is the object
\* {__type__: "bytes", encoding: "base64", data}; data is base64, it decodes
\* to b, and deserialize gives b for that object; and deserialize gives b
\* for the request envelope {__tywrap_bytes__: true, b64} of b, alone and as
\* an item of a list of arguments.
C28_BytesRoundTrip ==
    /\ Applied("_default_encoder") =>
          LET b == codec_call.value.data
              e == codec_result.v
          IN  /\ codec_result.ok
              /\ e.t = "dict"
              /\ e.keys = <<"__type__", "encoding", "data">>
              /\ e.vals[1] = TextBytes /\ e.vals[2] = TextBase64
              /\ e.vals[3].t = "text"
              /\ IsBase64(e.vals[3].chars)
              /\ b64decode(e.vals[3].chars) = Ok(Bytes(b))
              /\ deserialize(e) = Ok(Bytes(b))
    /\ Applied("deserialize") =>
          \A b \in ByteStrings :
             /\ codec_call.value = TywrapEnvelope(b64encode(b)) => codec_result = Ok(Bytes(b))
             /\ codec_call.value = Wrap(TywrapEnvelope(b64encode(b)), SiblingEnvelope, <<"list">>)
                   => (codec_result.ok /\ codec_result.v.items[2] = Bytes(b))

\* The bytes 'H' 0xff were encoded as the envelope with data "SP8=".
C28_Witness ==
    /\ Applied("_default_encoder")
    /\ codec_call.value = Bytes(<<72, 255>>)
    /\ codec_result.ok
    /\ dict_get(codec_result.v, "data") = Text(<<18, 15, 60, Pad>>)

\* C29: SafeCodec.encode with allow_nan false, on a value holding NaN,
\* Infinity or -Infinity at any depth (a float or a numpy scalar), raises
\* CodecError with the message that names NaN and returns no payload; with
\* allow_nan true and no ceiling in the way, the payload holds the token.
C29_NonFiniteIsCodecErrorNamingNaN ==
    (Applied("encode") /\ NonFinite(codec_call.value)) =>
       /\ ~codec_call.allow_nan =>
             /\ ~codec_result.ok
             /\ codec_result.exc.type = "CodecError"
             /\ codec_result.exc.message.text = MsgNaN
       /\ (codec_call.allow_nan /\ codec_call.max_payload_bytes = sys_maxsize) =>
             /\ codec_result.ok
             /\ \E i \in DOMAIN codec_result.v.body : codec_result.v.body[i] \in NanTokens

\* The JSON text of the value SafeCodec.encode was called on.
EncodedText == dumps_response(Bare(codec_call.value), codec_call.allow_nan, TRUE)

\* C30: SafeCodec.encode raises CodecError when the text is longer than
\* max_payload_bytes and returns it otherwise; SafeCodec.decode raises
\* CodecError when its input is longer than max_payload_bytes, JSON or not,
\* and parses it otherwise; a text of exactly max_payload_bytes passes both.
C30_SizeCeilingBothWays ==
    /\ (Applied("encode") /\ EncodedText.ok) =>
          IF utf8_len(EncodedText.v) > codec_call.max_payload_bytes
          THEN /\ ~codec_result.ok /\ codec_result.exc.type = "CodecError"
               /\ codec_result.exc.message.text = "Payload exceeds max_payload_bytes"
          ELSE codec_result = Ok(EncodedText.v)
    /\ Applied("decode") =>
          IF codec_call.value.bytes > codec_call.max_payload_bytes
          THEN /\ ~codec_result.ok /\ codec_result.exc.type = "CodecError"
               /\ codec_result.exc.message.text = "Payload exceeds max_payload_bytes"
          ELSE IF codec_call.value.valid THEN codec_result = Ok(codec_call.value.value)
          ELSE /\ ~codec_result.ok /\ codec_result.exc.type = "CodecError"
               /\ codec_result.exc.message.text = "JSON decoding failed"

\* A text of exactly max_payload_bytes was decoded.
C30_Witness ==
    /\ Applied("decode")
    /\ codec_call.value.bytes = codec_call.max_payload_bytes
    /\ codec_result.ok

\* The lines written on stdout for the request being processed.
WrittenForLine == {stdout[k].text : k \in Answers(Len(reqs))}

\* C35: when the response written for an instantiate or dispose_instance
\* request is an error response, whatever its type, the registry is as it
\* was before the request: no handle was added, none was removed.
C35_ErrorResponseLeavesRegistry ==
    (/\ reqs # <<>>
     /\ line.method \in {"instantiate", "dispose_instance"}
     /\ \E w \in WrittenForLine : w.kind = "error")
    => instances = instances_at_read

\* C38: with a response ceiling C, a line written on stdout with the text
\* encode_response returned is at most C bytes; a line of more than C bytes
\* is written only by the except clause of main, as a fallback error.
C38_OnlyFallbackExceedsCeiling ==
    [][(CODEC_MAX_BYTES # NoLimit /\ Len(stdout') > Len(stdout)) =>
         LET written_line == stdout'[Len(stdout')].text
         IN  /\ pc = "write" => utf8_len(written_line) <= CODEC_MAX_BYTES
             /\ utf8_len(written_line) > CODEC_MAX_BYTES =>
                   (pc = "fallback" /\ written_line.kind = "error")]_vars

\* Under a ceiling, a result of exactly C bytes was written, and after it a
\* fallback error of more than C bytes.
C38_Witness ==
    /\ CODEC_MAX_BYTES # NoLimit
    /\ \E j, k \in DOMAIN stdout :
          /\ stdout[j].text.kind = "result"
          /\ utf8_len(stdout[j].text) = CODEC_MAX_BYTES
          /\ stdout[k].text.kind = "error"
          /\ utf8_len(stdout[k].text) > CODEC_MAX_BYTES

\* The request being processed went through the size check, json.loads and
\* every check of dispatch_request and of its handler.
ReachedHandler(l) ==
    /\ ~too_large(l, REQUEST_MAX_BYTES)
    /\ l.json # "invalid"
    /\ dispatch_check(l).ok

\* C36: the set of handles in the registry differs from what it was when
\* the request was read only after an instantiate that passed validation,
\* import and the constructor, by exactly the handle minted and returned,
\* or after a dispose_instance of a handle that was live, by exactly that
\* handle; after every other request it is the same set.
C36_RegistryFrame ==
    reqs # <<>> =>
       \/ DOMAIN instances = DOMAIN instances_at_read
       \/ /\ ReachedHandler(line)
          /\ line.method = "instantiate"
          /\ resolve(line).ok
          /\ out.kind = "result"
          /\ out.result.t = "str"
          /\ out.result.leaf \notin DOMAIN instances_at_read
          /\ DOMAIN instances = DOMAIN instances_at_read \cup {out.result.leaf}
       \/ /\ ReachedHandler(line)
          /\ line.method = "dispose_instance"
          /\ line.handle \in DOMAIN instances_at_read
          /\ out = result_payload(line.id, Leaf("true"))
          /\ DOMAIN instances = DOMAIN instances_at_read \ {line.handle}

\* A dispose_instance removed the one handle of the registry, which an
\* earlier instantiate had added, and a call_method on it came in between.
C36_Witness ==
    /\ Len(reqs) >= 3
    /\ reqs[1].method = "instantiate"
    /\ reqs[2].method = "call_method"
    /\ reqs[2].handle = line.handle
    /\ line.method = "dispose_instance"
    /\ DOMAIN instances_at_read = {line.handle}
    /\ DOMAIN instances = {}

\* A parameter of the call_method request is malformed: the handle or the
\* method name is no non-empty string, args is no list, kwargs is no object,
\* or one of them holds a bytes envelope whose text is not base64.
MalformedParameter(l) ==
    \/ l.handle \in {"", "bad"} \/ l.name \in {"", "bad"}
    \/ ~ShapeAccepted(l.args, "list") \/ ~ShapeAccepted(l.kwargs, "dict")
    \/ HasMalformedEnvelope(l.args) \/ HasMalformedEnvelope(l.kwargs)

\* C37: a call_method naming a handle that is not in the registry is
\* answered with ProtocolError when one of its parameters is malformed, and
\* with InstanceHandleError only when all of them are valid.
C37_ValidationBeforeLookup ==
    (/\ TriedWithArguments
     /\ line.method = "call_method"
     /\ line.handle \notin DOMAIN instances_at_read)
    => IF MalformedParameter(line)
       THEN RejectedAs("ProtocolError")
       ELSE out.kind = "error" /\ out.error.type = "InstanceHandleError"

\* C40: for a call, instantiate or call_method that passed every check, the
\* positional arguments after decoding are a list and the keyword arguments
\* a mapping, and the call is not refused for what decoding made of them.
C40_ArgumentsKeepTheirKind ==
    (TriedWithArguments /\ dispatch_check(line).ok) =>
       /\ deserialize_args(line).v.t = "list"
       /\ deserialize_kwargs(line).v.t = "dict"
       /\ ~(out.kind = "error" /\ out.error.type = "TypeError")

\* The text writes an integer in decimal: digits, after a minus sign or not.
IsIntegerText(t) ==
    \E k \in {0, 1} :
       /\ Len(t) > k
       /\ k = 1 => t[1] = "-"
       /\ \A i \in (k + 1)..Len(t) : t[i] \in {"0", "7"}

RECURSIVE Trimmed(_)
\* The text without the blanks around it.
Trimmed(chars) ==
    IF chars = <<>> THEN chars
    ELSE IF Head(chars) = " " THEN Trimmed(Tail(chars))
    ELSE IF chars[Len(chars)] = " " THEN Trimmed(SubSeq(chars, 1, Len(chars) - 1))
    ELSE chars

\* The text writes a positive integer.
IsPositiveText(t) == IsIntegerText(t) /\ t[1] # "-" /\ \E i \in DOMAIN t : t[i] = "7"

RECURSIVE Written(_)
\* The number a text of digits writes: the last digit counts once, the
\* digits before it ten times what they write.
Written(t) ==
    IF t = <<>> THEN 0
    ELSE 10 * Written(SubSeq(t, 1, Len(t) - 1)) + (IF t[Len(t)] = "7" THEN 7 ELSE 0)

\* C34: get_codec_max_bytes and get_request_max_bytes give no ceiling for
\* an unset, empty or blank value and for an integer <= 0, the ceiling n
\* for a positive integer n, and raise the configuration error of their
\* variable for any other value.
C34_CeilingParsing ==
    \A fn \in {"get_codec_max_bytes", "get_request_max_bytes"} :
       Applied(fn) =>
          LET raw == codec_call.value
              text == IF raw = PyNone THEN <<>> ELSE Trimmed(raw.chars)
          IN  IF text = <<>> \/ (IsIntegerText(text) /\ ~IsPositiveText(text))
              THEN codec_result = Ok(PyNone)
              ELSE IF IsPositiveText(text)
              THEN codec_result = Ok(PyInt(Written(text)))
              ELSE /\ ~codec_result.ok
                   /\ codec_result.exc.type =
                         (IF fn = "get_codec_max_bytes" THEN "CodecMaxBytesParseError"
                          ELSE "RequestMaxBytesParseError")

\* The value '7x' of TYWRAP_REQUEST_MAX_BYTES raised the configuration
\* error.
C34_Witness ==
    /\ Applied("get_request_max_bytes")
    /\ codec_call.value = Raw(<<"7", "x">>)
    /\ ~codec_result.ok
    /\ codec_result.exc.type = "RequestMaxBytesParseError"

\* The checks of serialize the value matches.
Matches(obj) == IF obj.t = "object" THEN obj.is ELSE {}

\* The place in the order of serialize of the first check the value
\* matches, 0 when it matches none.
FirstMatch(obj) ==
    IF Matches(obj) = {} THEN 0
    ELSE CHOOSE i \in DOMAIN SerializeOrder :
            /\ SerializeOrder[i] \in Matches(obj)
            /\ \A j \in 1..(i - 1) : SerializeOrder[j] \notin Matches(obj)

\* The __tywrap__ markers of the six envelopes, in the order of serialize.
Markers == <<"ndarray", "dataframe", "series", "scipy.sparse", "torch.tensor", "sklearn.estimator">>

\* The response is the work of the encoder at place i of the order: its
\* envelope, the dump of the model, the string of the scalar, the value
\* itself for place 0, or the error that encoder raises (the tensor encoder
\* raises its own or the one of the array encoder it calls).
EncodedBy(i, o, obj) ==
    IF o.kind = "result"
    THEN CASE i = 0 -> o.result = obj
           [] i \in 1..6 -> o.result.t = "envelope" /\ o.result.kind = Markers[i]
           [] i = 7 -> o.result = ModelDump
           [] i = 8 -> o.result = Leaf("str")
    ELSE /\ o.error.type = "RuntimeError"
         /\ CASE i = 1 -> o.error.message.text = "Arrow encoding unavailable for ndarray"
              [] i = 2 -> o.error.message.text = "Arrow encoding unavailable for pandas.DataFrame"
              [] i = 3 -> o.error.message.text = "Arrow encoding unavailable for pandas.Series"
              [] i = 5 -> o.error.message.text \in
                            {"Arrow encoding unavailable for ndarray",
                             "Torch tensor needs a copy; set TYWRAP_TORCH_ALLOW_COPY=1"}
              [] OTHER -> FALSE

\* handle_call has returned serialize(res) and the response is not encoded yet.
Serialized == pc = "encode" /\ returned # NoValue

\* C31: serialize picks the encoder of the returned value by the first
\* check that matches, in the order array, frame, series, sparse matrix,
\* tensor, estimator, model, standard scalar extension; a value that
\* matches none is returned unchanged, and a value that matches several is
\* encoded by the earliest only.
C31_FirstMatchEncodes ==
    Serialized => EncodedBy(FirstMatch(returned), out, returned)

\* An estimator with a callable model_dump left serialize as the envelope
\* of the estimator.
C31_Witness ==
    /\ Serialized
    /\ returned = Object({"estimator", "model"}, 1, FALSE)
    /\ out.kind = "result"
    /\ out.result = Envelope("sklearn.estimator", "json", NoValue)

\* The returned value is encoded by the array, frame or series encoder.
ArrowEncoded == Serialized /\ FirstMatch(returned) \in 1..3

C33_EnvironmentReadOnceAtStartup ==
    /\ FALLBACK_JSON = fallback_json(environ_at_startup)
    /\ CODEC_MAX_BYTES = ceiling(get_codec_max_bytes(environ_at_startup.TYWRAP_CODEC_MAX_BYTES))
    /\ REQUEST_MAX_BYTES = ceiling(get_request_max_bytes(environ_at_startup.TYWRAP_REQUEST_MAX_BYTES))
    /\ Serialized => out = handler_response(line, Ok(returned), environ_at_startup)

\* The value a returned list or mapping holds.
Held(v) == IF v.t = "list" THEN v.items[1] ELSE v.vals[1]

\* handle_call returned a list or a mapping that holds an array, a frame,
\* a series, a sparse matrix, a tensor or an estimator.
HoldsTyped ==
    /\ Serialized
    /\ returned.t \in {"list", "dict"}
    /\ FirstMatch(Held(returned)) \in 1..6

\* The encode of the response failed on a value no encoder is known for.
EncodeFails ==
    /\ pc' = "fallback"
    /\ payload'.kind = "error"
    /\ payload'.error.type = "ValueError"
    /\ payload'.error.message.text = MsgFailedNoEncoder

\* The JSON encoder has a rule for the value: an array of dimension 0 is
\* written as its item, a standard scalar extension as its string, a value
\* with a callable model_dump as its dump.
HasEncoderRule(obj) ==
    \/ "ndarray" \in obj.is /\ obj.ndim = 0
    \/ "stdlib" \in obj.is
    \/ "model" \in obj.is

=============================================================================
